---- MODULE Spec2Model ----
(***************************************************************************)
(* Debt Tower: the ledger store (src/src/stores/debtStore.ts).             *)
(*                                                                         *)
(* Money values are whole currency units.  The store computes the interest *)
(* of a debt and the write-down of a principal payment by multiplying with *)
(* interestRate / 100; the model follows the runs in which these products  *)
(* are whole numbers (the field "exact" of the damage loop, Whole below),  *)
(* on which integer arithmetic and the store's arithmetic agree.           *)
(***************************************************************************)
EXTENDS Integers, Sequences, FiniteSets, TLC

\* ---------------------------------------------------------------- bounds
\* number of addDebt calls of a run (debt ids are never reused)
MaxDebts == 2
\* number of store operations of a run
MaxSteps == 3
\* longest id list handed to payBlocks
MaxIds == 2
\* longest candidate list the random strategy shuffles
MaxShuffle == 3
\* the timeouts of handleResize that can be pending at once
MaxResizes == 1

\* the client sizes the container of the tower takes
Desktop == [ width |-> 800, height |-> 600 ]
Viewports ==
    { Desktop,
      [ width |-> 30, height |-> 600 ], [ width |-> 76, height |-> 300 ],
      [ width |-> 150, height |-> 600 ], [ width |-> 599, height |-> 600 ],
      [ width |-> 600, height |-> 300 ], [ width |-> 1000, height |-> 600 ] }

\* (amount, interestRate) pairs offered to addDebt
DebtInputs == { <<250, 0>>, <<100, 10>>, <<150, 100>> }
\* amounts offered to the payment operations
PayAmounts == { 0, 100, 120 }

\* ------------------------------------------------------------- constants
BLOCK_VALUE == 100

\* an absent optional argument (undefined) of makePayment
Undefined == 0
\* the literal 'random' passed as targetDebtId
RandomLiteral == -1
\* the prop selectedWeapon when the parent does not pass it
NoWeapon == "undefined"
\* a number held by a ref
Number(n) == [ kind |-> "number", value |-> n ]
\* an absent block id, and a block id no block carries
NoBlockId == << >>
UnknownBlockId == <<0, "", 0>>

\* debts          the ledger: the list of debts, each with its list of blocks
\* totalPaidGame  the cumulative score
\* stored         the snapshot under the storage key 'debt-tower-state-v3'
\* nextId         the id addDebt gives the next debt; it stands for
\*                Date.now().toString(36) + Math.random().toString(36),
\*                taken to be fresh on every call
\* steps          the number of store operations performed
\* last           the call under observation
VARIABLES debts, totalPaidGame, stored, nextId, steps, last

\* The tower component (src/src/components/PhysicsTower.vue), once mounted:
\* bodyMap        the Map from block id to body, in insertion order
\* world          the block bodies in the physics world, by the block id they
\*                are tagged with, in the order they were added
\* dirty          the watcher on store.towerBlocks has a run queued
\* timers         the timeouts of handleResize that have not fired yet
\* pass           the reconciliation pass that has just run, if one has
\* retired        the ids whose body a pass destroyed since the last reset
\* everDestroyed  the ids whose body a pass ever destroyed
\* viewport       the client size of the container of the tower
VARIABLES bodyMap, world, dirty, timers, pass, retired, everDestroyed, viewport

\* The application around them (src/src/App.vue, DebtControl.vue) and the
\* pointer of the tower:
\* created         the store was created ("ok"), is not yet ("no"), or its
\*                 creation raised an error ("threw")
\* isTargeting     the ref of App.vue, handed to the tower as targetingMode
\* pendingPayment  the ref of App.vue, handed to the tower as paymentAmount
\* selectedWeapon  the prop selectedWeapon of the tower
\* mousePosition   the pointer position the tower tracked last
VARIABLES created, isTargeting, pendingPayment, selectedWeapon, mousePosition

ledgerVars == <<debts, totalPaidGame, stored, nextId, steps, last>>

towerVars == <<bodyMap, world, dirty, timers, pass, retired, everDestroyed, viewport>>

appVars == <<created, isTargeting, pendingPayment, selectedWeapon, mousePosition>>

vars == <<ledgerVars, towerVars, appVars>>

\* last is the record of the call under observation: the operation, its
\* arguments, the ledger it started from and what its loops did.  A run is
\* any number of unobserved operations followed by one observed operation,
\* so every operation from every reachable ledger is observed in some run.
NoOp == [ op |-> "none" ]

\* the run goes on: nothing was observed yet and the step bound allows a step
Unobserved == last = NoOp /\ steps < MaxSteps /\ steps' = steps + 1

\* the operation of this step is observed, or is not
Observe(record) == last' \in { NoOp, record }

\* ------------------------------------------------------------- helpers
Min(a, b) == IF a < b THEN a ELSE b

RECURSIVE SumSeq(_)
SumSeq(s) == IF s = << >> THEN 0 ELSE Head(s) + SumSeq(Tail(s))

RECURSIVE Concat(_)
Concat(ss) == IF ss = << >> THEN << >> ELSE Head(ss) \o Concat(Tail(ss))

Range(s) == { s[i] : i \in DOMAIN s }

\* x * (rate / 100) is a whole number
Whole(x, rate) == (x * rate) % 100 = 0

\* x * (rate / 100), for Whole(x, rate)
Percent(x, rate) == (x * rate) \div 100

\* --------------------------------------------------------- persistence
\* no snapshot under the storage key
NoSnapshot == [ present |-> FALSE ]

\* bug: the score is not part of the snapshot
saveStateDebtsOnly(ds, score) == [ present |-> TRUE, debts |-> ds, totalPaidGame |-> 0 ]

\* saveState(): the snapshot written under the storage key
saveState(ds, score) == [ present |-> TRUE, debts |-> ds, totalPaidGame |-> score ]

\* ------------------------------------------------------------- getters
totalDebt == SumSeq([i \in DOMAIN debts |-> debts[i].amount])

totalPaid == SumSeq([i \in DOMAIN debts |-> debts[i].paid])

remainingDebt == totalDebt - totalPaid

\* ------------------------------------------------------------- addDebt
\* COLORS, and the colour of the interest blocks
COLORS == << "#3B82F6", "#10B981", "#F59E0B", "#8B5CF6", "#EC4899", "#06B6D4", "#F97316" >>

InterestColor == "#7f1d1d"

\* COLORS[debts.value.length % COLORS.length]
DebtColor == COLORS[(Len(debts) % Len(COLORS)) + 1]

\* bug: the number in the id of a block does not count up
RECURSIVE ChunkSameNumber(_, _, _, _, _)
ChunkSameNumber(id, remaining, blockCount, type, color) ==
    IF remaining > 0
    THEN LET blockSize == Min(remaining, BLOCK_VALUE)
         IN  << [ id      |-> <<id, IF type = "interest" THEN "int" ELSE "", blockCount>>,
                  debtId  |-> id,
                  current |-> blockSize,
                  max     |-> blockSize,
                  color   |-> color,
                  type    |-> type ] >>
             \o ChunkSameNumber(id, remaining - blockSize, blockCount, type, color)
    ELSE << >>

\* the two while loops of addDebt: the blocks of one kind
RECURSIVE Chunk(_, _, _, _, _)
Chunk(id, remaining, blockCount, type, color) ==
    IF remaining > 0
    THEN LET blockSize == Min(remaining, BLOCK_VALUE)
         IN  << [ id      |-> <<id, IF type = "interest" THEN "int" ELSE "", blockCount>>,
                  debtId  |-> id,
                  current |-> blockSize,
                  max     |-> blockSize,
                  color   |-> color,
                  type    |-> type ] >>
             \o Chunk(id, remaining - blockSize, blockCount + 1, type, color)
    ELSE << >>

\* bug: the interest blocks are generated before the principal blocks
NewDebtInterestFirst(id, amount, interestRate) ==
    LET annualInterest == Percent(amount, interestRate)
        interest       == Chunk(id, annualInterest, 0, "interest", InterestColor)
        principal      == Chunk(id, amount, Len(interest), "principal", DebtColor)
    IN  [ id           |-> id,
          amount       |-> amount,
          paid         |-> 0,
          interestRate |-> interestRate,
          color        |-> DebtColor,
          blocks       |-> interest \o principal ]

\* addDebt: the debt record pushed onto debts
NewDebt(id, amount, interestRate) ==
    LET principal      == Chunk(id, amount, 0, "principal", DebtColor)
        annualInterest == Percent(amount, interestRate)
        interest       == Chunk(id, annualInterest, Len(principal), "interest", InterestColor)
    IN  [ id           |-> id,
          amount       |-> amount,
          paid         |-> 0,
          interestRate |-> interestRate,
          color        |-> DebtColor,
          blocks       |-> principal \o interest ]

\* ------------------------------------------------- reduceInterestBlocks
\* one step of the sort: j goes behind every index whose block is not larger
RECURSIVE InsertByCurrent(_, _, _)
InsertByCurrent(blocks, sorted, j) ==
    IF sorted = << >> THEN << j >>
    ELSE IF blocks[Head(sorted)].current <= blocks[j].current
         THEN << Head(sorted) >> \o InsertByCurrent(blocks, Tail(sorted), j)
         ELSE << j >> \o sorted

\* interestBlocks.sort((a, b) => a.current - b.current), a stable sort
RECURSIVE SortByCurrent(_, _)
SortByCurrent(blocks, idxs) ==
    IF idxs = << >> THEN << >>
    ELSE InsertByCurrent(blocks,
                         SortByCurrent(blocks, SubSeq(idxs, 1, Len(idxs) - 1)),
                         idxs[Len(idxs)])

\* Array.prototype.filter: the indices from j on, in list order, that keep marks
RECURSIVE FilterIdx(_, _)
FilterIdx(keep, j) ==
    IF j > Len(keep) THEN << >>
    ELSE (IF keep[j] THEN << j >> ELSE << >>) \o FilterIdx(keep, j + 1)

IsActive(b) == b.current > 0

IsActiveInterest(b) == b.type = "interest" /\ b.current > 0

\* bug: the write-down is not capped by the block's remaining value
WriteDownDamageUncapped(current, amountToRemove) == amountToRemove

\* the damage of one write-down step
WriteDownDamage(current, amountToRemove) == Min(current, amountToRemove)

\* bug: the write-down visits the interest blocks in ledger order
InterestOrderUnsorted(blocks) ==
    FilterIdx([j \in DOMAIN blocks |-> IsActiveInterest(blocks[j])], 1)

\* the order in which the write-down visits the interest blocks
InterestOrder(blocks) ==
    SortByCurrent(blocks, FilterIdx([j \in DOMAIN blocks |-> IsActiveInterest(blocks[j])], 1))

\* the while loop of reduceInterestBlocks
RECURSIVE ReduceLoop(_, _, _)
ReduceLoop(blocks, interestBlocks, amountToRemove) ==
    IF amountToRemove > 0 /\ Len(interestBlocks) > 0
    THEN LET j      == Head(interestBlocks)
             damage == WriteDownDamage(blocks[j].current, amountToRemove)
             after  == [blocks EXCEPT ![j].current = @ - damage]
         IN  ReduceLoop(after,
                        IF after[j].current <= 0 THEN Tail(interestBlocks)
                                                 ELSE interestBlocks,
                        amountToRemove - damage)
    ELSE blocks

\* bug: the write-down stops after the first interest block
reduceInterestBlocksFirstOnly(debt, amount) ==
    LET interestBlocks == InterestOrder(debt.blocks)
    IN  [debt EXCEPT !.blocks =
            ReduceLoop(debt.blocks,
                       IF interestBlocks = << >> THEN << >> ELSE << Head(interestBlocks) >>,
                       amount)]

reduceInterestBlocks(debt, amount) ==
    [debt EXCEPT !.blocks = ReduceLoop(debt.blocks, InterestOrder(debt.blocks), amount)]

\* ---------------------------------------------------------- makePayment
\* debts.value.find(d => d.id === id): the first index, 0 when there is none
RECURSIVE FindDebtFrom(_, _, _)
FindDebtFrom(ds, id, i) ==
    IF i > Len(ds) THEN 0
    ELSE IF ds[i].id = id THEN i ELSE FindDebtFrom(ds, id, i + 1)

FindDebt(ds, id) == FindDebtFrom(ds, id, 1)

\* d.blocks.find(b => b.id === id): the first index, 0 when there is none
RECURSIVE FindBlockFrom(_, _, _)
FindBlockFrom(blocks, id, j) ==
    IF j > Len(blocks) THEN 0
    ELSE IF blocks[j].id = id THEN j ELSE FindBlockFrom(blocks, id, j + 1)

\* A target is a reference <<i, j>> to block j of debt i: targetBlocks holds
\* the block objects themselves, so a write-down shows through the list.
BlockAt(ds, ref) == ds[ref[1]].blocks[ref[2]]

RefsOf(i, idxs) == [k \in DOMAIN idxs |-> <<i, idxs[k]>>]

\* debt.blocks.filter(b => b.current > 0), as references
ActiveOf(ds, i) ==
    RefsOf(i, FilterIdx([j \in DOMAIN ds[i].blocks |-> IsActive(ds[i].blocks[j])], 1))

\* all active blocks in ledger order
AllActive(ds) == Concat([i \in DOMAIN ds |-> ActiveOf(ds, i)])

\* the reference to the active block with this id, as a list of at most one
ActiveNamed(ds, id) ==
    LET Is(b) == b.id = id /\ b.current > 0
    IN  Concat([i \in DOMAIN ds |->
                  RefsOf(i, FilterIdx([j \in DOMAIN ds[i].blocks |-> Is(ds[i].blocks[j])], 1))])

\* bug: the named blocks are taken in the order of specificBlockIds
SpecificTargetsCallerOrder(ds, specificBlockIds) ==
    Concat([k \in DOMAIN specificBlockIds |->
              IF \E h \in 1..(k - 1) : specificBlockIds[h] = specificBlockIds[k]
              THEN << >> ELSE ActiveNamed(ds, specificBlockIds[k])])

\* branch 1: the blocks named by specificBlockIds
SpecificTargets(ds, specificBlockIds) ==
    LET Named(b) == b.id \in Range(specificBlockIds) /\ b.current > 0
    IN  Concat([i \in DOMAIN ds |->
                  RefsOf(i, FilterIdx([j \in DOMAIN ds[i].blocks |-> Named(ds[i].blocks[j])], 1))])

\* bug: the block hint is ignored and every active block is a target
TargetedTargetsAll(ds, targetBlockId) == AllActive(ds)

\* branch 2: the block named by targetBlockId
TargetedTargets(ds, targetBlockId) ==
    LET Hit(i) == LET j == FindBlockFrom(ds[i].blocks, targetBlockId, 1)
                  IN  IF j # 0 /\ ds[i].blocks[j].current > 0 THEN << <<i, j>> >> ELSE << >>
    IN  Concat([i \in DOMAIN ds |-> Hit(i)])

\* branch 3: the candidates of the random strategy, before the shuffle
RandomCandidates(ds, targetDebtId) ==
    IF targetDebtId # Undefined
    THEN LET i == FindDebt(ds, targetDebtId)
         IN  IF i # 0 THEN ActiveOf(ds, i) ELSE << >>
    ELSE AllActive(ds)

\* bug: the candidates are left in ledger order
ShufflesNone(s) == { s }

\* candidateBlocks.sort(() => 0.5 - Math.random()): some rearrangement
Shuffles(s) ==
    IF s = << >> THEN { << >> }
    ELSE { [k \in DOMAIN s |-> s[f[k]]] : f \in Permutations(DOMAIN s) }

\* the list back to front
Reverse(s) == [k \in DOMAIN s |-> s[Len(s) + 1 - k]]

\* bug: the standard strategy walks the ledger bottom up
StandardTargetsBottomUp(ds, targetDebtId) ==
    IF targetDebtId # Undefined /\ targetDebtId # RandomLiteral
    THEN LET i == FindDebt(ds, targetDebtId)
         IN  IF i # 0 THEN Reverse(ActiveOf(ds, i)) ELSE << >>
    ELSE Reverse(AllActive(ds))

\* branch 4: the standard strategy
StandardTargets(ds, targetDebtId) ==
    IF targetDebtId # Undefined /\ targetDebtId # RandomLiteral
    THEN LET i == FindDebt(ds, targetDebtId)
         IN  IF i # 0 THEN ActiveOf(ds, i) ELSE << >>
    ELSE AllActive(ds)

\* step 1 of makePayment: the target lists the call can build
SelectTargets(ds, targetDebtId, strategy, targetBlockId, specificBlockIds) ==
    IF Len(specificBlockIds) > 0
    THEN { SpecificTargets(ds, specificBlockIds) }
    ELSE IF strategy = "targeted" /\ targetBlockId # NoBlockId
    THEN { TargetedTargets(ds, targetBlockId) }
    ELSE IF strategy = "random"
    THEN Shuffles(RandomCandidates(ds, targetDebtId))
    ELSE { StandardTargets(ds, targetDebtId) }

\* bug: the damage is not capped by the block's remaining value
PaymentDamageUncapped(current, amountLeft) == amountLeft

\* bug: one blow takes at most half a full block
PaymentDamageGlancing(current, amountLeft) ==
    Min(Min(current, amountLeft), BLOCK_VALUE \div 2)

\* the damage of one step of the damage loop
PaymentDamage(current, amountLeft) == Min(current, amountLeft)

\* bug: every damaged block is credited to paid, whatever its kind
CreditParentAnyKind(ds, block, damage) ==
    LET p == FindDebt(ds, block.debtId)
    IN  IF p # 0 THEN [ds EXCEPT ![p].paid = @ + damage] ELSE ds

\* bug: damage to an interest block writes the interest down as well
CreditParentCompounding(ds, block, damage) ==
    LET p == FindDebt(ds, block.debtId)
    IN  IF p = 0 THEN ds
        ELSE LET paidUp == IF block.type = "principal"
                           THEN [ds EXCEPT ![p].paid = @ + damage] ELSE ds
                 interestReduction == Percent(damage, paidUp[p].interestRate)
             IN  IF interestReduction > 0
                 THEN [paidUp EXCEPT ![p] = reduceInterestBlocks(@, interestReduction)]
                 ELSE paidUp

\* bug: paid is credited but the interest is not written down
CreditParentNoWriteDown(ds, block, damage) ==
    LET p == FindDebt(ds, block.debtId)
    IN  IF p # 0 /\ block.type = "principal"
        THEN [ds EXCEPT ![p].paid = @ + damage]
        ELSE ds

\* lines 199-211: credit the owning debt and write its interest down
CreditParent(ds, block, damage) ==
    LET p == FindDebt(ds, block.debtId)
    IN  IF p # 0 /\ block.type = "principal"
        THEN LET paidUp            == [ds EXCEPT ![p].paid = @ + damage]
                 interestReduction == Percent(damage, paidUp[p].interestRate)
             IN  IF interestReduction > 0
                 THEN [paidUp EXCEPT ![p] = reduceInterestBlocks(@, interestReduction)]
                 ELSE paidUp
        ELSE ds

\* the write-down of this step is a whole number
StepExact(ds, block, damage) ==
    LET p == FindDebt(ds, block.debtId)
    IN  (p # 0 /\ block.type = "principal") => Whole(damage, ds[p].interestRate)

\* bug: the loop stops one candidate early
LoopGoesOnButLast(amountLeft, targetBlocks) == amountLeft > 0 /\ Len(targetBlocks) > 1

\* the condition of the while loop
LoopGoesOn(amountLeft, targetBlocks) == amountLeft > 0 /\ Len(targetBlocks) > 0

\* step 2 of makePayment: the while loop; log keeps one entry per iteration
RECURSIVE DamageLoop(_, _, _, _, _)
DamageLoop(ds, targetBlocks, amountLeft, log, exact) ==
    IF LoopGoesOn(amountLeft, targetBlocks)
    THEN LET ref    == Head(targetBlocks)
             block  == BlockAt(ds, ref)
             damage == PaymentDamage(block.current, amountLeft)
             hit    == [ds EXCEPT ![ref[1]].blocks[ref[2]].current = @ - damage]
             after  == CreditParent(hit, BlockAt(hit, ref), damage)
         IN  DamageLoop(after,
                        IF BlockAt(after, ref).current <= 0 THEN Tail(targetBlocks)
                                                            ELSE targetBlocks,
                        amountLeft - damage,
                        Append(log, [ref |-> ref, id |-> block.id, type |-> block.type,
                                     damage |-> damage, before |-> ds]),
                        exact /\ StepExact(ds, block, damage))
    ELSE [debts |-> ds, amountLeft |-> amountLeft, log |-> log, exact |-> exact]

\* bug: every call that gets to the end earns a point
ScorePerCall(score, amount, amountLeft) == score + (amount - amountLeft) + 1

\* bug: the whole requested amount is added to the score
ScoreWholeAmount(score, amount, amountLeft) == score + amount

\* the score after the call
Score(score, amount, amountLeft) == score + (amount - amountLeft)

\* makePayment as a whole, for the target list the call built
MakePaymentCall(op, amount, targetDebtId, strategy, targetBlockId, specificBlockIds) ==
    LET call == [ op |-> op, amount |-> amount, targetDebtId |-> targetDebtId,
                  strategy |-> strategy, targetBlockId |-> targetBlockId,
                  specificBlockIds |-> specificBlockIds,
                  pre |-> debts, preScore |-> totalPaidGame, preStored |-> stored ]
    IN  IF remainingDebt <= 0
        THEN /\ Observe(call @@ [ returned |-> TRUE, targetBlocks |-> << >>,
                                    log |-> << >>, amountLeft |-> amount ])
             /\ UNCHANGED <<debts, totalPaidGame, stored, nextId>>
        ELSE \E targetBlocks \in SelectTargets(debts, targetDebtId, strategy,
                                               targetBlockId, specificBlockIds) :
                LET r == DamageLoop(debts, targetBlocks, amount, << >>, TRUE)
                IN  /\ r.exact
                    /\ debts' = r.debts
                    /\ totalPaidGame' = Score(totalPaidGame, amount, r.amountLeft)
                    /\ stored' = saveState(debts', totalPaidGame')
                    /\ Observe(call @@ [ returned |-> FALSE, targetBlocks |-> targetBlocks,
                                           log |-> r.log, amountLeft |-> r.amountLeft ])
                    /\ UNCHANGED nextId

\* the ids of the debts and blocks of the ledger
DebtIds == { debts[i].id : i \in DOMAIN debts }

BlockIds == UNION { { debts[i].blocks[j].id : j \in DOMAIN debts[i].blocks } : i \in DOMAIN debts }

\* the lists of at most n different ids
RECURSIVE IdLists(_, _)
IdLists(ids, n) ==
    IF n = 0 THEN { << >> }
    ELSE LET shorter == IdLists(ids, n - 1)
         IN  shorter \cup
             UNION { { Append(l, id) : id \in ids \ Range(l) } :
                     l \in { x \in shorter : Len(x) = n - 1 } }

Init ==
    /\ debts = << >>
    /\ totalPaidGame = 0
    /\ stored = NoSnapshot
    /\ nextId = 1
    /\ steps = 0
    /\ last = NoOp
    /\ bodyMap = << >>
    /\ world = << >>
    /\ dirty = FALSE
    /\ timers = 0
    /\ pass = [ ran |-> FALSE ]
    /\ retired = {}
    /\ everDestroyed = {}
    /\ viewport = Desktop
    /\ created = "ok"
    /\ isTargeting = FALSE
    /\ pendingPayment = Number(0)
    /\ selectedWeapon = NoWeapon
    /\ mousePosition = << 0, 0 >>

AddDebt ==
    \E in \in DebtInputs :
        /\ Unobserved
        /\ nextId <= MaxDebts
        /\ Whole(in[1], in[2])
        /\ debts' = Append(debts, NewDebt(nextId, in[1], in[2]))
        /\ stored' = saveState(debts', totalPaidGame)
        /\ nextId' = nextId + 1
        /\ Observe([ op |-> "addDebt", amount |-> in[1], interestRate |-> in[2],
                      pre |-> debts, preScore |-> totalPaidGame ])
        /\ UNCHANGED totalPaidGame

\* makePayment(amount, targetDebtId, strategy) without a block hint
MakePayment ==
    /\ Unobserved
    /\ \E amount \in PayAmounts,
       targetDebtId \in DebtIds \cup { Undefined, RandomLiteral, nextId },
       strategy \in { "standard", "random", "targeted" } :
        /\ strategy = "random" =>
               Len(RandomCandidates(debts, targetDebtId)) <= MaxShuffle
        /\ MakePaymentCall("makePayment", amount, targetDebtId, strategy, NoBlockId, << >>)

\* paySpecificBlock(blockId, amount)
PaySpecificBlock ==
    /\ Unobserved
    /\ \E blockId \in BlockIds \cup { UnknownBlockId }, amount \in PayAmounts :
        MakePaymentCall("paySpecificBlock", amount, Undefined, "targeted", blockId, << >>)

\* payBlocks(amount, blockIds)
PayBlocks ==
    /\ Unobserved
    /\ \E amount \in PayAmounts, blockIds \in IdLists(BlockIds, MaxIds) :
        MakePaymentCall("payBlocks", amount, Undefined, "standard", NoBlockId, blockIds)

\* bug: every block is reset to a full block
ResetBlockFull(b) == [b EXCEPT !.current = BLOCK_VALUE]

\* resetProgress, for one block and for one debt
ResetBlock(b) == [b EXCEPT !.current = b.max]

\* bug: the reset leaves paid as it is
ResetDebtKeepsPaid(d) == [d EXCEPT !.blocks = [j \in DOMAIN d.blocks |-> ResetBlock(d.blocks[j])]]

ResetDebt(d) == [d EXCEPT !.paid = 0, !.blocks = [j \in DOMAIN d.blocks |-> ResetBlock(d.blocks[j])]]

ResetProgress ==
    /\ Unobserved
    /\ debts' = [i \in DOMAIN debts |-> ResetDebt(debts[i])]
    /\ totalPaidGame' = 0
    /\ stored' = saveState(debts', totalPaidGame')
    /\ Observe([ op |-> "resetProgress", pre |-> debts, preScore |-> totalPaidGame ])
    /\ UNCHANGED nextId

\* bug: the score survives the clear
ClearDebtsKeepsScore ==
    /\ Unobserved
    /\ debts' = << >>
    /\ stored' = saveState(debts', totalPaidGame)
    /\ Observe([ op |-> "clearDebts", pre |-> debts, preScore |-> totalPaidGame ])
    /\ UNCHANGED <<totalPaidGame, nextId>>

ClearDebts ==
    /\ Unobserved
    /\ debts' = << >>
    /\ totalPaidGame' = 0
    /\ stored' = saveState(debts', totalPaidGame')
    /\ Observe([ op |-> "clearDebts", pre |-> debts, preScore |-> totalPaidGame ])
    /\ UNCHANGED nextId

\* the store on its own: no tower is mounted
Next ==
    \/ AddDebt /\ UNCHANGED <<towerVars, appVars>>
    \/ MakePayment /\ UNCHANGED <<towerVars, appVars>>
    \/ PaySpecificBlock /\ UNCHANGED <<towerVars, appVars>>
    \/ PayBlocks /\ UNCHANGED <<towerVars, appVars>>
    \/ ResetProgress /\ UNCHANGED <<towerVars, appVars>>
    \/ ClearDebts /\ UNCHANGED <<towerVars, appVars>>

Spec == Init /\ [][Next]_vars

\* ===================================================================
\* The creation of the store: loadState() (debtStore.ts:273-283)
\* ===================================================================
\* What the storage key can hold when the store is created: nothing, a text
\* that is not JSON, the JSON texts null, 5 and {}, and a snapshot saveState
\* wrote (JSON.stringify and JSON.parse give the debts and the score back as
\* they were: they are lists, records, strings and finite numbers).
Json(form) == [ present |-> TRUE, json |-> form ]

SavedValues ==
    { NoSnapshot, Json("invalid"), Json("null"), Json("number"), Json("object"),
      saveState(<< >>, 0),
      saveState(<< NewDebt(1, 100, 10) >>, 0) }

\* the stored value is absent or not a snapshot
Malformed(saved) == ~saved.present \/ "json" \in DOMAIN saved

\* loadState(): JSON.parse throws on a text that is not JSON, and reading
\* data.debts throws when the text is null; a number or an object without
\* the fields gives [] and 0 through "|| []" and "|| 0"; the refs start as
\* [] and 0
loadState(saved) ==
    IF ~saved.present
    THEN [ threw |-> FALSE, debts |-> << >>, totalPaidGame |-> 0 ]
    ELSE IF "json" \notin DOMAIN saved
    THEN [ threw |-> FALSE, debts |-> saved.debts, totalPaidGame |-> saved.totalPaidGame ]
    ELSE IF saved.json \in { "invalid", "null" }
    THEN [ threw |-> TRUE, debts |-> << >>, totalPaidGame |-> 0 ]
    ELSE [ threw |-> FALSE, debts |-> << >>, totalPaidGame |-> 0 ]

\* useDebtStore() runs the setup function of the store, which ends in
\* loadState(); an error it raises leaves the application without a store
CreateStore ==
    /\ created = "no"
    /\ LET r == loadState(stored)
       IN  /\ created' = IF r.threw THEN "threw" ELSE "ok"
           /\ debts' = r.debts
           /\ totalPaidGame' = r.totalPaidGame
           /\ nextId' = Len(r.debts) + 1
           /\ Observe([ op |-> "loadState", saved |-> stored, threw |-> r.threw ])
    /\ UNCHANGED <<stored, steps, towerVars, isTargeting, pendingPayment,
                   selectedWeapon, mousePosition>>

LoadInit ==
    /\ debts = << >>
    /\ totalPaidGame = 0
    /\ stored \in SavedValues
    /\ nextId = 1
    /\ steps = 0
    /\ last = NoOp
    /\ bodyMap = << >>
    /\ world = << >>
    /\ dirty = FALSE
    /\ timers = 0
    /\ pass = [ ran |-> FALSE ]
    /\ retired = {}
    /\ everDestroyed = {}
    /\ viewport = Desktop
    /\ created = "no"
    /\ isTargeting = FALSE
    /\ pendingPayment = Number(0)
    /\ selectedWeapon = NoWeapon
    /\ mousePosition = << 0, 0 >>

LoadNext ==
    \/ CreateStore
    \/ created = "ok" /\ Next

\* the store from whatever the storage key holds
LoadSpec == LoadInit /\ [][LoadNext]_vars

\* ===================================================================
\* The tower: the bodies of the active blocks (PhysicsTower.vue)
\* ===================================================================
\* the getter towerBlocks of the store: the active blocks in ledger order
\* (ratio = current / max is left out)
ActiveBlock(block) ==
    [ id |-> block.id, debtId |-> block.debtId, color |-> block.color,
      current |-> block.current, max |-> block.max ]

towerBlocks ==
    Concat([i \in DOMAIN debts |->
              SelectSeq([j \in DOMAIN debts[i].blocks |-> ActiveBlock(debts[i].blocks[j])],
                        IsActive)])

\* the getter totalBlocks of the store
totalBlocks == Len(towerBlocks)

\* the getter destroyedBlocks of the store: Math.floor(totalPaid / BLOCK_VALUE)
destroyedBlocks == totalPaid \div BLOCK_VALUE

NoPass == [ ran |-> FALSE ]

\* the keys of a Map
Keys(map) == { map[k].id : k \in DOMAIN map }

\* the list without the entry at k
RemoveAt(s, k) == SubSeq(s, 1, k - 1) \o SubSeq(s, k + 1, Len(s))

\* bug: the body stays in the world
WorldRemoveNothing(w, id) == w

\* Matter.World.remove(world, body): the body tagged id leaves the world
RECURSIVE WorldRemove(_, _)
WorldRemove(w, id) ==
    IF w = << >> THEN << >>
    ELSE IF Head(w) = id THEN Tail(w)
    ELSE << Head(w) >> \o WorldRemove(Tail(w), id)

\* Matter.World.remove(world, Array.from(bodyMap.values()))
RECURSIVE WorldRemoveAll(_, _)
WorldRemoveAll(w, map) ==
    IF map = << >> THEN w
    ELSE WorldRemoveAll(WorldRemove(w, Head(map).body.plugin.blockId), Tail(map))

\* the fallback of an untagged colour
White == "#fff"

\* spawnDebris(x, y, color), as the destruction event of one body
Debris(id, body) ==
    [ id |-> id, position |-> body.position,
      color |-> IF body.plugin.color = "" THEN White ELSE body.plugin.color ]

\* createBlock(x, y, block): a body above the visible area, tagged with the
\* id and the colour of the block
createBlock(index, block) ==
    [ position |-> << "above", index >>,
      plugin   |-> [ blockId |-> block.id, color |-> block.color ] ]

\* bug: the loop takes every tracked body for a destroyed block
RECURSIVE RemoveLoopEvery(_, _, _, _, _)
RemoveLoopEvery(map, w, events, activeIds, k) ==
    IF k > Len(map) THEN [ bodyMap |-> map, world |-> w, events |-> events ]
    ELSE RemoveLoopEvery(RemoveAt(map, k),
                         WorldRemove(w, map[k].body.plugin.blockId),
                         Append(events, Debris(map[k].id, map[k].body)),
                         activeIds, k)

\* bug: the entry that follows a deleted entry is skipped
RECURSIVE RemoveLoopSkipping(_, _, _, _, _)
RemoveLoopSkipping(map, w, events, activeIds, k) ==
    IF k > Len(map) THEN [ bodyMap |-> map, world |-> w, events |-> events ]
    ELSE IF map[k].id \notin activeIds
    THEN RemoveLoopSkipping(RemoveAt(map, k),
                            WorldRemove(w, map[k].body.plugin.blockId),
                            Append(events, Debris(map[k].id, map[k].body)),
                            activeIds, k + 1)
    ELSE RemoveLoopSkipping(map, w, events, activeIds, k + 1)

\* step 2 of syncBodies: the loop over bodyMap.entries() from entry k on;
\* deleting the entry under the iterator does not skip the next one
RECURSIVE RemoveLoop(_, _, _, _, _)
RemoveLoop(map, w, events, activeIds, k) ==
    IF k > Len(map) THEN [ bodyMap |-> map, world |-> w, events |-> events ]
    ELSE IF map[k].id \notin activeIds
    THEN RemoveLoop(RemoveAt(map, k),
                    WorldRemove(w, map[k].body.plugin.blockId),
                    Append(events, Debris(map[k].id, map[k].body)),
                    activeIds, k)
    ELSE RemoveLoop(map, w, events, activeIds, k + 1)

\* step 3 of syncBodies: store.towerBlocks.forEach from index k on
RECURSIVE SpawnLoop(_, _, _, _)
SpawnLoop(map, w, blocks, k) ==
    IF k > Len(blocks) THEN [ bodyMap |-> map, world |-> w ]
    ELSE IF blocks[k].id \in Keys(map)
    THEN SpawnLoop(map, w, blocks, k + 1)
    ELSE SpawnLoop(Append(map, [ id |-> blocks[k].id, body |-> createBlock(k - 1, blocks[k]) ]),
                   Append(w, blocks[k].id),
                   blocks, k + 1)

\* every block of the ledger, destroyed or not, as towerBlocks lists them
EveryBlock ==
    Concat([i \in DOMAIN debts |->
              [j \in DOMAIN debts[i].blocks |->
                 [ id |-> debts[i].blocks[j].id, debtId |-> debts[i].blocks[j].debtId,
                   color |-> debts[i].blocks[j].color,
                   current |-> debts[i].blocks[j].current, max |-> debts[i].blocks[j].max ]]])

\* bug: step 3 walks every block of the ledger, not the active ones
syncBodiesSpawnEvery(map, w, blocks) ==
    LET activeIds == { blocks[k].id : k \in DOMAIN blocks }
        removed   == RemoveLoop(map, w, << >>, activeIds, 1)
        spawned   == SpawnLoop(removed.bodyMap, removed.world, EveryBlock, 1)
    IN  [ bodyMap |-> spawned.bodyMap, world |-> spawned.world, events |-> removed.events ]

\* syncBodies(): one reconciliation pass, in the mounted component (the
\* container is there)
syncBodies(map, w, blocks) ==
    LET activeIds == { blocks[k].id : k \in DOMAIN blocks }
        removed   == RemoveLoop(map, w, << >>, activeIds, 1)
        spawned   == SpawnLoop(removed.bodyMap, removed.world, blocks, 1)
    IN  [ bodyMap |-> spawned.bodyMap, world |-> spawned.world, events |-> removed.events ]

\* updateBlockDimensions(): the block size follows the width of the container
updateBlockDimensions(width) ==
    IF width < 600 THEN [ w |-> 35, h |-> 20 ] ELSE [ w |-> 50, h |-> 25 ]

blockWidth == updateBlockDimensions(viewport.width).w

blockHeight == updateBlockDimensions(viewport.width).h

Max(a, b) == IF a > b THEN a ELSE b

MAX_COLS == 12

\* bug: the number of columns is not kept to MAX_COLS
safeColsUncapped(width, w) == Max(1, (width - 40) \div (w + 1))

\* the columns of the wall: gap = 1, availableWidth = width - 40
safeCols(width, w) == Max(1, Min((width - 40) \div (w + 1), MAX_COLS))

\* bug: every block is put in the bottom row
RowOfGround(index, cols) == 0

RowOf(index, cols) == index \div cols

\* The place restack() gives the block at an index of towerBlocks, as twice
\* newX and twice newY (halves of odd sizes stay whole numbers):
\*   startX = (width - wallWidth) / 2 + w / 2
\*   newX   = startX + col * effWidth + (isOddRow ? w / 2 : 0)
\*   newY   = height - row * (h + 1) - h / 2 - 10
WallPlace(view, w, h, index) ==
    LET cols      == safeCols(view.width, w)
        wallWidth == cols * (w + 1)
        row       == RowOf(index, cols)
        col       == index % cols
    IN  << "wall",
           (view.width - wallWidth) + w + 2 * col * (w + 1) + (IF row % 2 # 0 THEN w ELSE 0),
           2 * view.height - 2 * row * (h + 1) - h - 20 >>

\* restack(): every active block that has a body is teleported to its place
\* in the wall, which its index in towerBlocks decides; angle and velocities
\* are set to 0 (a body of the model has neither: it rests where it is put)
restack(map, blocks) ==
    [k \in DOMAIN map |->
        IF \E i \in DOMAIN blocks : blocks[i].id = map[k].id
        THEN [map[k] EXCEPT !.body.position =
                 WallPlace(viewport, blockWidth, blockHeight,
                           (CHOOSE i \in DOMAIN blocks : blocks[i].id = map[k].id) - 1)]
        ELSE map[k]]

\* a pass has run: what it met and what it did
Passed(r) ==
    /\ pass' = [ ran |-> TRUE, tracked |-> bodyMap, events |-> r.events ]
    /\ retired' = retired \cup { r.events[k].id : k \in DOMAIN r.events }
    /\ everDestroyed' = everDestroyed \cup { r.events[k].id : k \in DOMAIN r.events }

\* the watcher on store.towerBlocks runs: syncBodies()
WatcherRun ==
    /\ dirty
    /\ \E blocks \in { towerBlocks } :
       \E r \in { syncBodies(bodyMap, world, blocks) } :
           /\ bodyMap' = r.bodyMap
           /\ world' = r.world
           /\ Passed(r)
    /\ dirty' = FALSE
    /\ UNCHANGED <<ledgerVars, timers, viewport, appVars>>

\* bug: the bodies are taken out of the world and stay in the Map
HandleResizeKeepsMap(size) ==
    /\ timers < MaxResizes
    /\ viewport' = size
    /\ world' = WorldRemoveAll(world, bodyMap)
    /\ timers' = timers + 1
    /\ pass' = NoPass
    /\ UNCHANGED <<ledgerVars, bodyMap, dirty, retired, everDestroyed, appVars>>

\* handleResize(): every body is taken out of the world and the Map, and a
\* timeout is set
HandleResizeTo(size) ==
    /\ timers < MaxResizes
    /\ viewport' = size
    /\ bodyMap' = << >>
    /\ world' = WorldRemoveAll(world, bodyMap)
    /\ timers' = timers + 1
    /\ pass' = NoPass
    /\ UNCHANGED <<ledgerVars, dirty, retired, everDestroyed, appVars>>

\* handleResize() with the size the container had: the call onMounted
\* schedules, a resize that gives the size back
HandleResize == HandleResizeTo(viewport)

\* the ResizeObserver reports another size of the container
ViewportResize == \E size \in Viewports \ { viewport } : HandleResizeTo(size)

\* the timeout of handleResize fires: syncBodies(); restack()
ResizeTimeout ==
    /\ timers > 0
    /\ timers' = timers - 1
    /\ \E blocks \in { towerBlocks } :
       \E r \in { syncBodies(bodyMap, world, blocks) } :
           /\ bodyMap' = restack(r.bodyMap, blocks)
           /\ world' = r.world
           /\ Passed(r)
    /\ UNCHANGED <<ledgerVars, dirty, viewport, appVars>>

\* bug: the store operation does not reach the watcher
Unwatched ==
    /\ pass' = NoPass
    /\ UNCHANGED <<bodyMap, world, dirty, timers, everDestroyed, viewport>>

\* a store operation while the tower is mounted: the watcher is queued when
\* the operation changed a block
Watched ==
    /\ dirty' = (dirty \/ debts' # debts)
    /\ pass' = NoPass
    /\ UNCHANGED <<bodyMap, world, timers, everDestroyed, viewport>>

\* the operation is not the one under observation, and leaves retired alone
Unseen == last' = NoOp /\ UNCHANGED retired

\* The mounted application.  Its components call the store through addDebt
\* (DebtControl.vue), paySpecificBlock (App.vue, on target-confirmed),
\* resetProgress (the reset button of the tower) and clearDebts (DebtControl.vue);
\* of these, the runs observe resetProgress and clearDebts only.
TowerNext ==
    \/ AddDebt /\ Watched /\ Unseen /\ UNCHANGED appVars
    \/ PaySpecificBlock /\ Watched /\ Unseen /\ UNCHANGED appVars
    \/ ResetProgress /\ Watched /\ retired' = {} /\ UNCHANGED appVars
    \/ ClearDebts /\ Watched /\ UNCHANGED <<retired, appVars>>
    \/ WatcherRun
    \/ HandleResize
    \/ ResizeTimeout

TowerSpec == Init /\ [][TowerNext]_vars

\* The tower while debts are added and the container changes its size
LayoutNext ==
    \/ AddDebt /\ Watched /\ Unseen /\ UNCHANGED appVars
    \/ WatcherRun
    \/ ViewportResize
    \/ ResizeTimeout

LayoutSpec == Init /\ [][LayoutNext]_vars

\* The scheduler of Vue flushes a queued watcher run in a microtask, and the
\* host fires a timeout that was set: neither waits forever.
TowerFairSpec ==
    TowerSpec /\ WF_vars(WatcherRun) /\ WF_vars(ResizeTimeout)

\* ===================================================================
\* The console (DebtControl.vue) and the requests to add a debt
\* ===================================================================
\* a number field that holds nothing
Null == [ kind |-> "null" ]

\* the truth value of what a number field holds: null and 0 are falsy
Truthy(v) == v.kind = "number" /\ v.value # 0

\* the names a debt is asked for with
Names == { "", "Car" }
\* the amounts and rates store.addDebt is called with
RequestAmounts == { -50, 0, 100 }
RequestRates == { 0, 10 }
\* what the fields of the form hold: the amount field has :min="1" and the
\* rate field :min="0", so a number in them is within these limits
FormAmounts == { Null, Number(100), Number(150) }
FormRates == { Null, Number(10) }

\* store.addDebt(name, amount, interestRate): nothing is validated.  The
\* name goes into the debt record only; no operation reads it.
addDebt(name, amount, interestRate) ==
    /\ debts' = Append(debts, NewDebt(nextId, amount, interestRate))
    /\ stored' = saveState(debts', totalPaidGame)
    /\ nextId' = nextId + 1
    /\ UNCHANGED totalPaidGame

\* a caller of the store asks for a debt
AddDebtRequest ==
    \E name \in Names, amount \in RequestAmounts, interestRate \in RequestRates :
        /\ Unobserved
        /\ nextId <= MaxDebts
        /\ Whole(amount, interestRate)
        /\ addDebt(name, amount, interestRate)
        /\ Observe([ op |-> "addDebt", name |-> name, amount |-> Number(amount),
                      interestRate |-> interestRate, pre |-> debts,
                      preScore |-> totalPaidGame, preStored |-> stored ])

\* addNewDebt() of the form: the button "Spawn Block"
AddNewDebt ==
    \E newDebtName \in Names, newDebtAmount \in FormAmounts, newDebtRate \in FormRates :
        LET interestRate == IF Truthy(newDebtRate) THEN newDebtRate.value ELSE 0
        IN  /\ Unobserved
            /\ nextId <= MaxDebts
            /\ IF newDebtName # "" /\ Truthy(newDebtAmount)
               THEN /\ Whole(newDebtAmount.value, interestRate)
                    /\ addDebt(newDebtName, newDebtAmount.value, interestRate)
               ELSE UNCHANGED <<debts, totalPaidGame, stored, nextId>>
            /\ Observe([ op |-> "addNewDebt", name |-> newDebtName,
                          amount |-> newDebtAmount, interestRate |-> interestRate,
                          pre |-> debts, preScore |-> totalPaidGame,
                          preStored |-> stored ])

\* The requests to add a debt: through the form, and through the store
RequestNext ==
    \/ AddNewDebt /\ UNCHANGED <<towerVars, appVars>>
    \/ AddDebtRequest /\ UNCHANGED <<towerVars, appVars>>

RequestSpec == Init /\ [][RequestNext]_vars

\* ===================================================================
\* Targeting: the console, App.vue and the pointer of the tower
\* ===================================================================
\* Coordinates of the canvas are carried doubled, as WallPlace gives them;
\* widths and heights are not.  The bodies are at rest and not rotated.

\* the weapons of the console
Weapons == { "standard", "random", "targeted" }
\* the amounts the payment field holds when the button ENGAGE is enabled
ConsoleAmounts == { Number(100), Number(120) }

\* what handleWeaponActivation emits with 'enable-targeting'
Payload(amount, weapon) == [ kind |-> "object", amount |-> amount, weapon |-> weapon ]

\* v > n of JavaScript for a v that is a number or an object: an object
\* converts to NaN, and every comparison with NaN is false
GreaterThan(v, n) == v.kind = "number" /\ v.value > n

Abs(x) == IF x < 0 THEN 0 - x ELSE x

\* createBoundaries(w, h): the floor and the two walls, static and untagged
createBoundaries(view) ==
    << [ isStatic |-> TRUE, blockId |-> NoBlockId,
         position |-> << view.width, 2 * view.height - 30 >>,
         width |-> view.width, height |-> 50 ],
       [ isStatic |-> TRUE, blockId |-> NoBlockId,
         position |-> << 0, view.height >>,
         width |-> 50, height |-> 2 * view.height ],
       [ isStatic |-> TRUE, blockId |-> NoBlockId,
         position |-> << 2 * view.width, view.height >>,
         width |-> 50, height |-> 2 * view.height ] >>

\* the centre of the place with this index in the wall
PlaceAt(index) ==
    LET place == WallPlace(viewport, blockWidth, blockHeight, index)
    IN  << place[2], place[3] >>

\* a piece of debris of spawnDebris, not static and untagged, lying above the
\* second place of the wall
DebrisBody ==
    [ isStatic |-> FALSE, blockId |-> NoBlockId,
      position |-> << PlaceAt(1)[1], PlaceAt(1)[2] - 80 >>,
      width |-> 8, height |-> 8 ]

\* the block bodies of the world where the physics brought them to rest: in
\* the places of the wall, in the order they were added or in the reverse
BlockBodies(reversed) ==
    [k \in DOMAIN world |->
        [ isStatic |-> FALSE, blockId |-> world[k],
          position |-> PlaceAt(IF reversed THEN Len(world) - k ELSE k - 1),
          width |-> blockWidth, height |-> blockHeight ]]

\* Matter.Composite.allBodies(engine.world) at the press
Scene(reversed, debris) ==
    createBoundaries(viewport) \o BlockBodies(reversed)
        \o (IF debris THEN << DebrisBody >> ELSE << >>)

\* the positions the pointer is moved to: the centre of the first place of
\* the wall, a point of that place right of its centre, the centre of the
\* third place, a point where no body is, a point of the left wall, and the
\* centre of the debris
Points ==
    { PlaceAt(0),
      << PlaceAt(0)[1] + blockWidth - 2, PlaceAt(0)[2] >>,
      PlaceAt(2),
      << viewport.width, 200 >>,
      << 20, 200 >>,
      DebrisBody.position }

\* the body is tagged with a block id
Tagged(b) == b.blockId # NoBlockId

\* Matter.Query.point(bodies, point), for one body
Contains(b, point) ==
    /\ Abs(point[1] - b.position[1]) <= b.width
    /\ Abs(point[2] - b.position[2]) <= b.height

\* Matter.Vector.magnitude(Matter.Vector.sub(p, q)) <= radius
Within(p, q, radius) ==
    (p[1] - q[1]) * (p[1] - q[1]) + (p[2] - q[2]) * (p[2] - q[2])
        <= (2 * radius) * (2 * radius)

\* the events of the press
NoEvent == [ type |-> "none" ]
Warning == [ type |-> "warning" ]

IsTarget(b) == ~b.isStatic /\ Tagged(b)

\* bug: the press is taken outside the targeting mode too
mousedownAlways(targetingMode, paymentAmount, weapon, bodies, point, blocks) ==
    LET Hit(b) == Contains(b, point) /\ IsTarget(b)
        targets == SelectSeq(bodies, Hit)
    IN  IF targets = << >> THEN NoEvent
        ELSE [ type |-> "target-confirmed", blockId |-> Head(targets).blockId ]

\* the listener of 'mousedown' on the canvas: the event it emits
mousedown(targetingMode, paymentAmount, weapon, bodies, point, blocks) ==
    IF ~targetingMode THEN NoEvent
    ELSE LET Hit(b) == Contains(b, point)
             hit == SelectSeq(bodies, Hit)
             targets == SelectSeq(hit, IsTarget)
         IN  IF targets = << >> THEN NoEvent
             ELSE LET target == Head(targets)
                      blockId == target.blockId
                      BLAST_RADIUS == blockWidth * 3
                      InBlast(b) == IsTarget(b) /\ Within(b.position, target.position, BLAST_RADIUS)
                      hitBodies == SelectSeq(bodies, InBlast)
                      found == SelectSeq(blocks, LAMBDA b : b.id = blockId)
                  IN  IF weapon = "random"
                      THEN [ type |-> "area-target-confirmed",
                             ids |-> [k \in DOMAIN hitBodies |-> hitBodies[k].blockId] ]
                      ELSE IF found = << >> THEN NoEvent
                      ELSE IF weapon = "targeted" /\ GreaterThan(paymentAmount, Head(found).current)
                      THEN Warning
                      ELSE [ type |-> "target-confirmed", blockId |-> blockId ]

\* store.paySpecificBlock(blockId, amount), as App.vue calls it
paySpecificBlock(blockId, amount) ==
    IF remainingDebt <= 0
    THEN UNCHANGED <<debts, totalPaidGame, stored>>
    ELSE \E targetBlocks \in SelectTargets(debts, Undefined, "targeted", blockId, << >>) :
            \E r \in { DamageLoop(debts, targetBlocks, amount, << >>, TRUE) } :
                /\ r.exact
                /\ debts' = r.debts
                /\ totalPaidGame' = Score(totalPaidGame, amount, r.amountLeft)
                /\ stored' = saveState(debts', totalPaidGame')

\* bug: the confirmed target is paid and the targeting goes on
handleTargetConfirmedKeepsOn(blockId) ==
    IF GreaterThan(pendingPayment, 0)
    THEN /\ paySpecificBlock(blockId, pendingPayment.value)
         /\ UNCHANGED <<isTargeting, pendingPayment>>
    ELSE UNCHANGED <<debts, totalPaidGame, stored, isTargeting, pendingPayment>>

\* handleTargetConfirmed(blockId) of App.vue
handleTargetConfirmed(blockId) ==
    IF GreaterThan(pendingPayment, 0)
    THEN /\ paySpecificBlock(blockId, pendingPayment.value)
         /\ isTargeting' = FALSE
         /\ pendingPayment' = Number(0)
    ELSE UNCHANGED <<debts, totalPaidGame, stored, isTargeting, pendingPayment>>

\* handleWeaponActivation() of the console, the button ENGAGE, and
\* enableTargeting of App.vue, which takes what was emitted as the amount
HandleWeaponActivation ==
    /\ last = NoOp
    /\ \E paymentAmount \in ConsoleAmounts, weapon \in Weapons :
        /\ Truthy(paymentAmount) /\ paymentAmount.value > 0
        /\ isTargeting' = TRUE
        /\ pendingPayment' = Payload(paymentAmount.value, weapon)
    /\ UNCHANGED <<ledgerVars, towerVars, created, selectedWeapon, mousePosition>>

\* enableTargeting(amount: number) of App.vue called with a number, as it is
\* declared, and the prop selectedWeapon of the tower bound by its parent
EnableTargeting ==
    /\ last = NoOp
    /\ \E amount \in ConsoleAmounts, weapon \in Weapons \cup { NoWeapon } :
        /\ isTargeting' = TRUE
        /\ pendingPayment' = amount
        /\ selectedWeapon' = weapon
    /\ UNCHANGED <<ledgerVars, towerVars, created, mousePosition>>

\* cancelTargeting() of App.vue: the key Escape or the button of the banner,
\* both there in targeting mode only
CancelTargeting ==
    /\ last = NoOp
    /\ isTargeting
    /\ isTargeting' = FALSE
    /\ pendingPayment' = Number(0)
    /\ UNCHANGED <<ledgerVars, towerVars, created, selectedWeapon, mousePosition>>

\* the listener of 'mousemove': the position is tracked in targeting mode
MouseMove ==
    /\ last = NoOp
    /\ isTargeting
    /\ \E point \in Points \ { mousePosition } : mousePosition' = point
    /\ UNCHANGED <<ledgerVars, towerVars, created, isTargeting, pendingPayment, selectedWeapon>>

\* a press on the canvas: the listener of 'mousedown', and the handler App.vue
\* has for what it emits ('area-target-confirmed' has no listener there)
MouseDown ==
    /\ Unobserved
    /\ \E reversed \in BOOLEAN, debris \in BOOLEAN :
       \E bodies \in { Scene(reversed, debris) } :
       \E event \in { mousedown(isTargeting, pendingPayment, selectedWeapon,
                                bodies, mousePosition, towerBlocks) } :
           /\ IF event.type = "target-confirmed"
              THEN handleTargetConfirmed(event.blockId)
              ELSE UNCHANGED <<debts, totalPaidGame, stored, isTargeting, pendingPayment>>
           /\ Observe([ op |-> "mousedown", targetingMode |-> isTargeting,
                         paymentAmount |-> pendingPayment, weapon |-> selectedWeapon,
                         bodies |-> bodies, point |-> mousePosition, event |-> event,
                         pre |-> debts, preScore |-> totalPaidGame,
                         preStored |-> stored ])
    /\ UNCHANGED <<nextId, created, selectedWeapon, mousePosition>>

\* The application as it is wired: the console emits { amount, weapon }, and
\* App.vue binds neither the prop selectedWeapon nor 'area-target-confirmed'
AppNext ==
    \/ AddNewDebt /\ Watched /\ UNCHANGED <<retired, appVars>>
    \/ WatcherRun
    \/ HandleWeaponActivation
    \/ MouseMove
    \/ MouseDown /\ Watched /\ UNCHANGED retired
    \/ CancelTargeting

AppSpec == Init /\ [][AppNext]_vars

\* The tower and App.vue under a console that hands over the amount as a
\* number, with the prop selectedWeapon bound
PressNext ==
    \/ AddNewDebt /\ Watched /\ UNCHANGED <<retired, appVars>>
    \/ WatcherRun
    \/ EnableTargeting
    \/ MouseMove
    \/ MouseDown /\ Watched /\ UNCHANGED retired
    \/ CancelTargeting

PressSpec == Init /\ [][PressNext]_vars

\* ===================================================================
\* Properties
\* ===================================================================
IsPayment == last.op \in { "makePayment", "paySpecificBlock", "payBlocks" }

\* the observed call went past the early return
Ran == IsPayment /\ ~last.returned

\* sums over the blocks of one debt
PrincipalPaid(d) ==
    SumSeq([j \in DOMAIN d.blocks |->
              IF d.blocks[j].type = "principal" THEN d.blocks[j].max - d.blocks[j].current ELSE 0])

PrincipalLeft(d) ==
    SumSeq([j \in DOMAIN d.blocks |->
              IF d.blocks[j].type = "principal" THEN d.blocks[j].current ELSE 0])

InterestLeft(d) ==
    SumSeq([j \in DOMAIN d.blocks |->
              IF d.blocks[j].type = "interest" THEN d.blocks[j].current ELSE 0])

\* the direct damage of the observed call, from the log of its loop
LogDamage == SumSeq([k \in DOMAIN last.log |-> last.log[k].damage])

\* the references to all blocks of a ledger
Refs(ds) == UNION { { <<i, j>> : j \in DOMAIN ds[i].blocks } : i \in DOMAIN ds }

\* C1: in every reachable state each debt has paid = the sum of max - current
\* over its principal blocks and 0 <= paid <= amount, and remainingDebt is the
\* sum of current over all principal blocks.
C1_PaidMatchesBlocks ==
    /\ \A i \in DOMAIN debts :
          /\ debts[i].paid = PrincipalPaid(debts[i])
          /\ 0 <= debts[i].paid
          /\ debts[i].paid <= debts[i].amount
    /\ remainingDebt = SumSeq([i \in DOMAIN debts |-> PrincipalLeft(debts[i])])

\* a payBlocks call left one debt partly paid and another fully paid
C1_Witness ==
    /\ last.op = "payBlocks"
    /\ \E i \in DOMAIN debts : 0 < debts[i].paid /\ debts[i].paid < debts[i].amount
    /\ \E i \in DOMAIN debts : debts[i].paid = debts[i].amount

\* C2: every block of every debt has 0 <= current <= max, interest blocks
\* reduced by a write-down included.
C2_BlockBounds ==
    \A i \in DOMAIN debts : \A j \in DOMAIN debts[i].blocks :
        /\ 0 <= debts[i].blocks[j].current
        /\ debts[i].blocks[j].current <= debts[i].blocks[j].max

\* a payment that hit principal blocks only wrote an interest block down to
\* zero and a second one partly
C2_Witness ==
    /\ Ran
    /\ \A k \in DOMAIN last.log : last.log[k].type = "principal"
    /\ \E i \in DOMAIN debts : \E j, h \in DOMAIN debts[i].blocks :
          /\ debts[i].blocks[j].type = "interest"
          /\ debts[i].blocks[h].type = "interest"
          /\ debts[i].blocks[j].current = 0
          /\ BlockAt(last.pre, <<i, j>>).current > 0
          /\ 0 < debts[i].blocks[h].current
          /\ debts[i].blocks[h].current < BlockAt(last.pre, <<i, h>>).current

\* the value the candidates of the observed call had when it started
CandidateValue ==
    SumSeq([k \in DOMAIN last.targetBlocks |-> BlockAt(last.pre, last.targetBlocks[k]).current])

\* C3: the direct damage of a makePayment call is at most the requested amount
\* and at most the value its candidate blocks had when the call started.
C3_DamageBounded ==
    IsPayment =>
        /\ LogDamage <= last.amount
        /\ LogDamage <= CandidateValue

\* a call whose amount exceeded the value of its candidates: it dealt less
\* than the value they started with, because a write-down took the rest
C3_Witness ==
    /\ Ran
    /\ last.amount > CandidateValue
    /\ 0 < LogDamage
    /\ LogDamage < CandidateValue

\* the damage dealt by the observed call, as the store computes it for the score
DamageDealt == last.amount - last.amountLeft

\* the value of all active blocks of the ledger the call started from
ActiveValue(ds) == SumSeq([i \in DOMAIN ds |-> PrincipalLeft(ds[i]) + InterestLeft(ds[i])])

\* C4 as stated, for the calls that give it the best chance (sequential
\* payments with no hint, whose candidates are all active blocks): the damage
\* dealt equals the requested amount whenever the requested amount is at most
\* the total current value of all active blocks.
C4_Original ==
    (last.op = "makePayment" /\ last.strategy = "standard" /\ last.targetDebtId = Undefined) =>
        (last.amount <= ActiveValue(last.pre) => DamageDealt = last.amount)

\* a candidate the write-downs of the call cannot reach: a principal block, or
\* an interest block of a debt none of whose principal blocks is a candidate
Unreachable(ref) ==
    \/ BlockAt(last.pre, ref).type = "principal"
    \/ \A k \in DOMAIN last.targetBlocks :
          LET other == last.targetBlocks[k]
          IN  other[1] = ref[1] => BlockAt(last.pre, other).type = "interest"

UnreachableValue ==
    SumSeq([k \in DOMAIN last.targetBlocks |->
              IF Unreachable(last.targetBlocks[k])
              THEN BlockAt(last.pre, last.targetBlocks[k]).current ELSE 0])

\* C4 amended: the damage dealt equals the requested amount whenever the
\* requested amount is at most the total current value of the candidate blocks
\* of the call that its own write-downs cannot reach.
C4_DamageEqualsAmount ==
    IsPayment =>
        (last.amount <= UnreachableValue => DamageDealt = last.amount)

\* a positive amount, spread over two candidates, was dealt in full
C4_Witness ==
    /\ Ran
    /\ last.amount > 0
    /\ last.amount <= UnreachableValue
    /\ Len(last.log) >= 2
    /\ DamageDealt = last.amount

\* the positive entries of the log all hit principal blocks of debt i
OnlyPrincipalOf(i) ==
    /\ LogDamage > 0
    /\ \A k \in DOMAIN last.log :
          last.log[k].damage > 0 =>
              last.log[k].type = "principal" /\ last.log[k].ref[1] = i

\* C5: a payment whose direct damage D falls only on principal blocks of one
\* debt raises that debt's paid by exactly D and lowers the total current of
\* its interest blocks by exactly min(D * rate / 100, the interest it had).
C5_PrincipalPayment ==
    Ran =>
        \A i \in DOMAIN debts :
            OnlyPrincipalOf(i) =>
                /\ debts[i].paid = last.pre[i].paid + LogDamage
                /\ InterestLeft(last.pre[i]) - InterestLeft(debts[i])
                     = Min(Percent(LogDamage, debts[i].interestRate),
                           InterestLeft(last.pre[i]))

\* a debt of 100 at rate 10, paid 100: paid = 100, both blocks destroyed
C5_Witness ==
    /\ Ran
    /\ last.amount = 100
    /\ Len(last.pre) = 1
    /\ last.pre[1].amount = 100 /\ last.pre[1].interestRate = 10 /\ last.pre[1].paid = 0
    /\ InterestLeft(last.pre[1]) = 10
    /\ OnlyPrincipalOf(1)
    /\ debts[1].paid = 100
    /\ \A j \in DOMAIN debts[1].blocks : debts[1].blocks[j].current = 0

\* the value the principal blocks lost in the observed call
PrincipalLoss ==
    SumSeq([i \in DOMAIN debts |-> PrincipalLeft(last.pre[i]) - PrincipalLeft(debts[i])])

\* the value the interest blocks lost in the observed call
InterestLoss ==
    SumSeq([i \in DOMAIN debts |-> InterestLeft(last.pre[i]) - InterestLeft(debts[i])])

\* the direct damage the log records for interest blocks
InterestLogDamage ==
    SumSeq([k \in DOMAIN last.log |->
              IF last.log[k].type = "interest" THEN last.log[k].damage ELSE 0])

\* C6: a makePayment call raises totalPaidGame by exactly amount - amountLeft,
\* the direct damage to principal and interest blocks; written-down value and
\* the part of the amount that found no target add nothing.
C6_ScoreIsDirectDamage ==
    IsPayment =>
        /\ totalPaidGame = last.preScore + DamageDealt
        /\ DamageDealt = LogDamage
        /\ DamageDealt = PrincipalLoss + InterestLogDamage

\* a call that wrote interest down and found no target for part of its amount
C6_Witness ==
    /\ Ran
    /\ last.amountLeft > 0
    /\ InterestLoss > InterestLogDamage
    /\ InterestLogDamage > 0
    /\ totalPaidGame > last.preScore

\* ledger iteration order on block references: debts in insertion order, then
\* each debt's blocks in creation order
Before(x, y) == x[1] < y[1] \/ (x[1] = y[1] /\ x[2] < y[2])

\* the observed call dealt direct damage to the block at ref
Hit(ref) == \E k \in DOMAIN last.log : last.log[k].ref = ref /\ last.log[k].damage > 0

\* the references to the blocks of the starting ledger that carry this id
RefsNamed(id) == { ref \in Refs(last.pre) : BlockAt(last.pre, ref).id = id }

ActiveBefore(ref) == BlockAt(last.pre, ref).current > 0

\* the candidates are in ledger order, each once, and a candidate is hit only
\* once every candidate before it is destroyed
InLedgerOrder ==
    /\ \A k, h \in DOMAIN last.targetBlocks :
          k < h => Before(last.targetBlocks[k], last.targetBlocks[h])
    /\ \A k, h \in DOMAIN last.log :
          (k < h /\ last.log[k].ref # last.log[h].ref) =>
              Before(last.log[k].ref, last.log[h].ref)
    /\ \A x, y \in Range(last.targetBlocks) :
          (Before(x, y) /\ Hit(y)) => BlockAt(debts, x).current = 0

C8_Original ==
    last.op = "payBlocks" =>
        /\ \A k \in DOMAIN last.log :
              last.log[k].damage > 0 => last.log[k].id \in Range(last.specificBlockIds)
        /\ (\A ref \in Refs(last.pre) :
                BlockAt(last.pre, ref).id \in Range(last.specificBlockIds) => ~ActiveBefore(ref))
              => (debts = last.pre /\ totalPaidGame = last.preScore)

\* debt i is as the observed call found it
SameDebt(i) == debts[i] = last.pre[i]

\* C9: paySpecificBlock(blockId, amount) reduces the named block by
\* min(its current, amount) and applies the rest of the amount to no block;
\* besides that block only its debt's paid, its debt's interest blocks and the
\* score may change; naming a destroyed or unknown block changes nothing.
C9_SingleTarget ==
    last.op = "paySpecificBlock" =>
        /\ Cardinality(RefsNamed(last.targetBlockId)) <= 1
        /\ (\A ref \in RefsNamed(last.targetBlockId) : ~ActiveBefore(ref))
              => (debts = last.pre /\ totalPaidGame = last.preScore)
        /\ \A ref \in RefsNamed(last.targetBlockId) :
              LET before == BlockAt(last.pre, ref)
                  dealt  == Min(before.current, last.amount)
              IN  /\ BlockAt(debts, ref).current = before.current - dealt
                  /\ totalPaidGame = last.preScore + dealt
                  /\ \A k \in DOMAIN last.log : last.log[k].ref = ref
                  /\ \A i \in DOMAIN debts : i # ref[1] => SameDebt(i)
                  /\ \A other \in Refs(last.pre) :
                        (other # ref /\ BlockAt(debts, other) # BlockAt(last.pre, other))
                            => /\ other[1] = ref[1]
                               /\ BlockAt(last.pre, other).type = "interest"
                               /\ before.type = "principal"
                               /\ BlockAt(debts, other) =
                                      [BlockAt(last.pre, other) EXCEPT
                                          !.current = BlockAt(debts, other).current]
                  /\ [debts[ref[1]] EXCEPT !.paid = 0, !.blocks = << >>]
                        = [last.pre[ref[1]] EXCEPT !.paid = 0, !.blocks = << >>]

\* the amount exceeded the named principal block: the block is destroyed, its
\* debt's interest is written down, and another active block is untouched
C9_Witness ==
    /\ last.op = "paySpecificBlock" /\ Ran
    /\ \E ref \in RefsNamed(last.targetBlockId) :
          /\ ActiveBefore(ref)
          /\ BlockAt(last.pre, ref).type = "principal"
          /\ BlockAt(last.pre, ref).current < last.amount
          /\ BlockAt(debts, ref).current = 0
          /\ InterestLeft(debts[ref[1]]) < InterestLeft(last.pre[ref[1]])
          /\ \E other \in Refs(last.pre) :
                /\ other # ref
                /\ BlockAt(last.pre, other).type = "principal"
                /\ BlockAt(debts, other).current > 0

\* the observed call is a sequential payment
Sequential == last.op = "makePayment" /\ last.strategy = "standard"

\* the debt the sequential payment is restricted to, 0 when it is not
Restricted ==
    IF last.targetDebtId \in { Undefined, RandomLiteral } THEN 0
    ELSE last.targetDebtId

\* C10: a sequential payment deals direct damage to the active blocks in
\* ledger iteration order, destroying each candidate before the next one is
\* hit; when a debt id is given, no block of another debt changes.
C10_Sequential ==
    (Sequential /\ Ran) =>
        /\ \A ref \in Refs(last.pre) :
              ref \in Range(last.targetBlocks) <=>
                  /\ ActiveBefore(ref)
                  /\ Restricted # 0 => last.pre[ref[1]].id = Restricted
        /\ InLedgerOrder
        /\ Restricted # 0 =>
              \A i \in DOMAIN debts : debts[i].id # Restricted => SameDebt(i)

\* a debt of 250 at rate 0, paid 120 and restricted to that debt while a
\* second debt stands: blocks at 0, 80, 50 and paid = 120
C10_Witness ==
    /\ Sequential /\ Ran
    /\ last.amount = 120
    /\ Len(debts) = 2
    /\ \E i \in DOMAIN debts :
          /\ last.targetDebtId = debts[i].id
          /\ last.pre[i].amount = 250 /\ last.pre[i].interestRate = 0 /\ last.pre[i].paid = 0
          /\ [j \in DOMAIN debts[i].blocks |-> debts[i].blocks[j].current] = <<0, 80, 50>>
          /\ debts[i].paid = 120

\* -------------------------------------------------------------------
\* the observed call is a payment of the random strategy
Randomized == last.op = "makePayment" /\ last.strategy = "random"

\* the blocks a randomized payment draws from: the active blocks of the
\* debt named by the call, of all debts when the call names none
RandomPool ==
    { ref \in Refs(last.pre) :
        /\ ActiveBefore(ref)
        /\ last.targetDebtId # Undefined => last.pre[ref[1]].id = last.targetDebtId }

\* the blocks the target list of the observed call could have started with
FirstTargets ==
    { targetBlocks[1] :
        targetBlocks \in SelectTargets(last.pre, last.targetDebtId, "random",
                                       NoBlockId, << >>) \ { << >> } }

\* C11: the candidate list of a randomized payment holds exactly the active
\* blocks of the given debt (of all debts when none is given), each once;
\* every one of them can come first; when a debt id is given no block of
\* another debt changes.
C11_Randomized ==
    (Randomized /\ Ran) =>
        /\ Range(last.targetBlocks) = RandomPool
        /\ Len(last.targetBlocks) = Cardinality(RandomPool)
        /\ FirstTargets = RandomPool
        /\ last.targetDebtId # Undefined =>
              \A i \in DOMAIN debts : debts[i].id # last.targetDebtId => SameDebt(i)

\* a randomized payment restricted to the second of two debts damaged the
\* last block of that debt first and left its first block whole
C11_Witness ==
    /\ Randomized /\ Ran
    /\ Len(debts) = 2
    /\ last.targetDebtId = debts[2].id
    /\ Len(last.log) > 0
    /\ last.log[1].damage > 0
    /\ last.log[1].ref = <<2, Len(debts[2].blocks)>>
    /\ debts[2].blocks[1].current = debts[2].blocks[1].max

\* -------------------------------------------------------------------
\* no block of the ledger is active
AllDestroyed(ds) == \A ref \in Refs(ds) : BlockAt(ds, ref).current = 0

\* C12: a payment of amount 0, and a payment on a ledger without an active
\* block, leave every block, every debt's paid and the score as they were,
\* whatever the strategy and the hints.
C12_NothingToPay ==
    (IsPayment /\ (last.amount = 0 \/ AllDestroyed(last.pre))) =>
        /\ debts = last.pre
        /\ totalPaidGame = last.preScore

\* a payment of amount 0 went past the early return with two candidates, one
\* of them already damaged
C12_Witness ==
    /\ Ran
    /\ last.amount = 0
    /\ Len(last.targetBlocks) >= 2
    /\ \E k \in DOMAIN last.targetBlocks :
          LET b == BlockAt(debts, last.targetBlocks[k])
          IN  0 < b.current /\ b.current < b.max

\* a payment of a positive amount met a ledger whose blocks are all destroyed
PaidIntoDestroyedLedger ==
    /\ IsPayment /\ last.amount > 0 /\ last.pre # << >> /\ AllDestroyed(last.pre)

\* -------------------------------------------------------------------
\* the ledger iteration k of the observed call left: the one the next
\* iteration met, the ledger of the state for the last iteration
After(k) == IF k < Len(last.log) THEN last.log[k + 1].before ELSE debts

\* the iterations of the observed call that damaged an interest block
InterestSteps == { k \in DOMAIN last.log : last.log[k].type = "interest" }

\* C13: an iteration that damages an interest block directly takes the damage
\* from that block and changes nothing else: the owning debt's paid stays and
\* no other block is written down.
C13_InterestStepFrame ==
    Ran =>
        \A k \in InterestSteps :
            LET e == last.log[k]
            IN  After(k) = [e.before EXCEPT ![e.ref[1]].blocks[e.ref[2]].current = @ - e.damage]

\* one call damaged a principal block and then an interest block; after the
\* interest step the debt, whose rate is positive, still had another active
\* interest block
C13_Witness ==
    /\ Ran
    /\ \E h, k \in DOMAIN last.log :
          /\ h < k
          /\ last.log[h].type = "principal" /\ last.log[h].damage > 0
          /\ last.log[k].type = "interest" /\ last.log[k].damage > 0
          /\ LET e == last.log[k]
                 d == After(k)[e.ref[1]]
             IN  /\ d.interestRate > 0
                 /\ \E j \in DOMAIN d.blocks :
                       /\ j # e.ref[2]
                       /\ d.blocks[j].type = "interest"
                       /\ d.blocks[j].current > 0

\* -------------------------------------------------------------------
\* the amount iteration k of the observed call passed to reduceInterestBlocks,
\* 0 when the iteration did not call it
WriteDownOf(k) ==
    LET e == last.log[k]
    IN  IF e.type = "principal" THEN Percent(e.damage, e.before[e.ref[1]].interestRate) ELSE 0

\* the iterations of the observed call that called reduceInterestBlocks
WriteDownSteps == { k \in DOMAIN last.log : WriteDownOf(k) > 0 }

\* what iteration k took from the block at ref
Taken(k, ref) == BlockAt(last.log[k].before, ref).current - BlockAt(After(k), ref).current

\* the interest blocks of the debt iteration k wrote down
InterestRefs(k) ==
    { ref \in Refs(last.log[k].before) :
        ref[1] = last.log[k].ref[1] /\ BlockAt(last.log[k].before, ref).type = "interest" }

\* C14: reduceInterestBlocks(debt, x) takes value from the active interest
\* blocks of that debt only, from a block only when every interest block that
\* had a smaller current is at 0, min(x, the debt's active interest) in all,
\* and changes no principal block and no block of another debt.
C14_WriteDown ==
    Ran =>
        \A k \in WriteDownSteps :
            LET e == last.log[k]
            IN  /\ \A ref \in Refs(e.before) \ InterestRefs(k) :
                      Taken(k, ref) = IF ref = e.ref THEN e.damage ELSE 0
                /\ \A ref \in InterestRefs(k) :
                      /\ Taken(k, ref) >= 0
                      /\ Taken(k, ref) > 0 =>
                            \A other \in InterestRefs(k) :
                                BlockAt(e.before, other).current < BlockAt(e.before, ref).current
                                    => BlockAt(After(k), other).current = 0
                /\ InterestLeft(e.before[e.ref[1]]) - InterestLeft(After(k)[e.ref[1]])
                      = Min(WriteDownOf(k), InterestLeft(e.before[e.ref[1]]))

\* a write-down met two active interest blocks, the smaller one later in the
\* ledger: it emptied the smaller one and took a part of the larger one
C14_Witness ==
    /\ Ran
    /\ \E k \in WriteDownSteps :
          \E ref, other \in InterestRefs(k) :
              /\ ref[2] < other[2]
              /\ 0 < BlockAt(last.log[k].before, other).current
              /\ BlockAt(last.log[k].before, other).current < BlockAt(last.log[k].before, ref).current
              /\ BlockAt(After(k), other).current = 0
              /\ 0 < Taken(k, ref)
              /\ 0 < BlockAt(After(k), ref).current

\* -------------------------------------------------------------------
\* the values of max over the blocks of one kind, in ledger order
MaxOf(d, type) ==
    LET idxs == FilterIdx([j \in DOMAIN d.blocks |-> d.blocks[j].type = type], 1)
    IN  [k \in DOMAIN idxs |-> d.blocks[idxs[k]].max]

\* every chunk but the last is a full block and the last is not empty
FullButLast(sizes) ==
    \A k \in DOMAIN sizes :
        /\ 0 < sizes[k] /\ sizes[k] <= BLOCK_VALUE
        /\ k < Len(sizes) => sizes[k] = BLOCK_VALUE

\* C15: after addDebt(name, amount, rate) with amount > 0 the new debt has
\* paid = 0, principal blocks whose max sum to amount, interest blocks whose
\* max sum to amount * rate / 100, every block whole (current = max <= 100)
\* and full except possibly the last of its kind, the principal blocks ahead
\* of the interest blocks; the debts that were there and the score stay.
C15_AddDebt ==
    (last.op = "addDebt" /\ last.amount > 0) =>
        /\ Len(debts) = Len(last.pre) + 1
        /\ SubSeq(debts, 1, Len(last.pre)) = last.pre
        /\ totalPaidGame = last.preScore
        /\ LET d == debts[Len(debts)]
           IN  /\ d.paid = 0
               /\ d.amount = last.amount
               /\ SumSeq(MaxOf(d, "principal")) = last.amount
               /\ SumSeq(MaxOf(d, "interest")) = Percent(last.amount, last.interestRate)
               /\ FullButLast(MaxOf(d, "principal"))
               /\ FullButLast(MaxOf(d, "interest"))
               /\ \A j \in DOMAIN d.blocks :
                     /\ d.blocks[j].current = d.blocks[j].max
                     /\ d.blocks[j].type \in { "principal", "interest" }
               /\ \A j, h \in DOMAIN d.blocks :
                     (d.blocks[j].type = "principal" /\ d.blocks[h].type = "interest") => j < h

\* a debt of 150 at rate 100 was added, as blocks of 100, 50, 100, 50, to a
\* ledger holding a partly paid debt and a positive score
C15_Witness ==
    /\ last.op = "addDebt"
    /\ last.amount = 150 /\ last.interestRate = 100
    /\ last.preScore > 0
    /\ Len(last.pre) = 1
    /\ 0 < last.pre[1].paid /\ last.pre[1].paid < last.pre[1].amount
    /\ [j \in DOMAIN debts[2].blocks |-> debts[2].blocks[j].max] = <<100, 50, 100, 50>>

\* -------------------------------------------------------------------
\* a block but for its current
Shape(b) == [ id |-> b.id, debtId |-> b.debtId, max |-> b.max, type |-> b.type,
              color |-> b.color ]

\* C16: resetProgress sets every block's current to its max, every debt's
\* paid to 0 and the score to 0, and keeps the debts, their order, amounts
\* and rates and every block's id, max and kind.
C16_ResetProgress ==
    last.op = "resetProgress" =>
        /\ totalPaidGame = 0
        /\ Len(debts) = Len(last.pre)
        /\ \A i \in DOMAIN debts :
              /\ debts[i].paid = 0
              /\ debts[i].id = last.pre[i].id
              /\ debts[i].amount = last.pre[i].amount
              /\ debts[i].interestRate = last.pre[i].interestRate
              /\ Len(debts[i].blocks) = Len(last.pre[i].blocks)
              /\ \A j \in DOMAIN debts[i].blocks :
                    /\ debts[i].blocks[j].current = debts[i].blocks[j].max
                    /\ Shape(debts[i].blocks[j]) = Shape(last.pre[i].blocks[j])

\* the reset met a positive score, a destroyed principal block, a partly
\* damaged one and an interest block written down
C16_Witness ==
    /\ last.op = "resetProgress"
    /\ last.preScore > 0
    /\ \E i \in DOMAIN last.pre :
          \E j, h, g \in DOMAIN last.pre[i].blocks :
              /\ last.pre[i].blocks[j].type = "principal" /\ last.pre[i].blocks[j].current = 0
              /\ last.pre[i].blocks[h].type = "principal"
              /\ 0 < last.pre[i].blocks[h].current
              /\ last.pre[i].blocks[h].current < last.pre[i].blocks[h].max
              /\ last.pre[i].blocks[g].type = "interest"
              /\ last.pre[i].blocks[g].current < last.pre[i].blocks[g].max

\* -------------------------------------------------------------------
\* the ids of the active blocks
ActiveIds ==
    LET blocks == towerBlocks
    IN  { blocks[k].id : k \in DOMAIN blocks }

\* the ids the pass that has just run emitted a destruction event for
Destroyed == { pass.events[k].id : k \in DOMAIN pass.events }

\* C17: clearDebts leaves no debt, hence no active block, and score 0; the
\* next reconciliation pass removes every tracked body, and none stays
\* tracked.
C17_ClearDebts ==
    last.op = "clearDebts" =>
        /\ debts = << >>
        /\ towerBlocks = << >>
        /\ totalPaidGame = 0
        /\ pass.ran =>
              /\ bodyMap = << >>
              /\ world = << >>
              /\ Keys(pass.tracked) \subseteq Destroyed

\* the pass after the clear of a partly paid debt with a positive score met
\* two tracked bodies or more; a destroyed block had lost its body before
C17_Witness ==
    /\ last.op = "clearDebts"
    /\ last.preScore > 0
    /\ \E i \in DOMAIN last.pre : 0 < last.pre[i].paid
    /\ pass.ran
    /\ Len(pass.tracked) >= 2
    /\ everDestroyed \ Destroyed # {}

\* C18: right after a reconciliation pass the tracked ids are the ids of the
\* blocks with current > 0, however many store operations the pass covers.
C18_TrackedAreActive ==
    pass.ran => Keys(bodyMap) = ActiveIds

\* one pass covered a payment and an addDebt: it destroyed a body, kept one
\* and spawned one
C18_Witness ==
    /\ pass.ran
    /\ Destroyed # {}
    /\ Keys(pass.tracked) \cap Keys(bodyMap) # {}
    /\ Keys(bodyMap) \ Keys(pass.tracked) # {}
    /\ Len(debts) = 2

\* C19 as claimed: an id whose body a pass destroyed is never tracked again.
C19_Original ==
    \A id \in everDestroyed : id \notin Keys(bodyMap)

\* C19: an id whose body a pass destroyed is not tracked again as long as
\* resetProgress has not run since.
C19_RetiredUntilReset ==
    \A id \in retired : id \notin Keys(bodyMap)

\* a pass spawned bodies for a second debt while a block of the first debt,
\* destroyed by an earlier pass, stayed without a body
C19_Witness ==
    /\ pass.ran
    /\ retired # {}
    /\ retired \subseteq { EveryBlock[k].id : k \in DOMAIN EveryBlock }
    /\ Keys(bodyMap) \ Keys(pass.tracked) # {}
    /\ Keys(bodyMap) # {}

\* the entries the pass met whose id is not among activeIds
Gone(activeIds) == { k \in DOMAIN pass.tracked : pass.tracked[k].id \notin activeIds }

\* C20: a pass emits, for each tracked body whose id is not active, one
\* destruction event, with the position and the tagged colour of the body,
\* and takes the body out of the world and the Map; it emits none for an id
\* that is active.
C20_DestructionEvents ==
    pass.ran =>
        LET activeIds == ActiveIds
            gone      == Gone(activeIds)
            tracked   == Keys(bodyMap)
            inWorld   == Range(world)
        IN  /\ \A k \in gone :
                  LET entry == pass.tracked[k]
                      mine  == { j \in DOMAIN pass.events : pass.events[j].id = entry.id }
                  IN  /\ Cardinality(mine) = 1
                      /\ \A j \in mine :
                            /\ pass.events[j].position = entry.body.position
                            /\ pass.events[j].color = entry.body.plugin.color
                      /\ entry.id \notin tracked
                      /\ entry.body.plugin.blockId \notin inWorld
            /\ Destroyed \cap activeIds = {}
            /\ Len(pass.events) = Cardinality(gone)

\* a pass destroyed a body that had been put on the wall and one of another
\* colour, and left an active body tracked
C20_Witness ==
    /\ pass.ran
    /\ \E j, h \in DOMAIN pass.events :
          /\ pass.events[j].position[1] = "wall"
          /\ pass.events[j].color # pass.events[h].color
    /\ Keys(pass.tracked) \cap ActiveIds # {}

\* -------------------------------------------------------------------
\* the tracked ids are the active ids
Reconciled == Keys(bodyMap) = ActiveIds

\* C21: after a store operation that changes the active blocks, and after a
\* resize, a reconciliation pass runs in the end: tracked ids that differ
\* from the active ids are made equal to them by a pass, and a queued watcher
\* run and a pending timeout of handleResize lead to a pass.
C21_EventuallyReconciled ==
    /\ ~Reconciled ~> (pass.ran /\ Reconciled)
    /\ dirty ~> pass.ran
    /\ (timers > 0) ~> pass.ran

\* a pass met tracked ids that were not the active ids, with bodies to
\* destroy and to spawn, while a timeout of handleResize was still pending
C21_Witness ==
    /\ pass.ran
    /\ Reconciled
    /\ Keys(pass.tracked) # ActiveIds
    /\ pass.events # << >>
    /\ Keys(bodyMap) \ Keys(pass.tracked) # {}
    /\ timers > 0

\* -------------------------------------------------------------------
\* a step of the tower: a pass of the watcher, a resize, its timeout
Pass == WatcherRun \/ ResizeTimeout

\* the bodies of the ids that are tracked and active are those of before
Untouched ==
    \A k \in DOMAIN bodyMap :
        bodyMap[k].id \in ActiveIds =>
            \E j \in DOMAIN bodyMap' :
                /\ bodyMap'[j].id = bodyMap[k].id
                /\ bodyMap'[j].body.plugin = bodyMap[k].body.plugin
                /\ WatcherRun => bodyMap'[j].body = bodyMap[k].body

\* C22: syncBodies, restack and handleResize leave the ledger as it is;
\* syncBodies leaves the body of every id that is tracked and active as it is
\* (the same body at the same place; only the restack() of the timeout moves
\* it); and a pass that meets the tracked ids equal to the active ids spawns
\* nothing, destroys nothing and emits no event.
C22_PassFrame ==
    [][ /\ (Pass \/ HandleResize) => UNCHANGED ledgerVars
        /\ Pass => Untouched
        /\ (Pass /\ Reconciled) =>
              /\ pass'.events = << >>
              /\ Keys(bodyMap') = Keys(bodyMap)
              /\ world' = world
              /\ WatcherRun => bodyMap' = bodyMap ]_vars

\* the second pass with no store call in between: the timeout of a resize
\* met the bodies the watcher had spawned, did nothing to the Map or the
\* world, and restack() moved them
C22_Witness ==
    /\ pass.ran
    /\ pass.tracked # << >>
    /\ Keys(pass.tracked) = ActiveIds
    /\ pass.events = << >>
    /\ Keys(bodyMap) = Keys(pass.tracked)
    /\ \E k \in DOMAIN bodyMap : /\ pass.tracked[k].body.position[1] = "above"
                                 /\ bodyMap[k].body.position[1] = "wall"

\* -------------------------------------------------------------------
\* C30: in every reachable state the interest blocks of each debt hold at
\* most (amount - paid) * interestRate / 100 together, and when remainingDebt
\* is 0 no block is active: the early return of makePayment leaves no
\* interest behind.
C30_InterestWithinRate ==
    /\ \A i \in DOMAIN debts :
          100 * InterestLeft(debts[i]) <= (debts[i].amount - debts[i].paid) * debts[i].interestRate
    /\ remainingDebt = 0 => AllActive(debts) = << >>

\* every debt is paid off, one with interest among them: its interest went
\* with its principal, and a payment made now returns early
C30_Witness ==
    /\ debts # << >>
    /\ remainingDebt = 0
    /\ \E i \in DOMAIN debts : debts[i].interestRate > 0
    /\ last # NoOp /\ last.op = "makePayment" /\ last.returned

\* -------------------------------------------------------------------
\* C27: when the store is created over an absent or malformed snapshot, the
\* ledger is empty, the score is 0 and no error is raised.
C27_Original ==
    (last # NoOp /\ last.op = "loadState" /\ Malformed(last.saved)) =>
        /\ created = "ok"
        /\ ~last.threw
        /\ debts = << >>
        /\ totalPaidGame = 0

\* -------------------------------------------------------------------
\* the largest number of columns of 1 .. 12 that fit in width - 40, 1 when
\* not even one does
Columns(width, w) ==
    LET fit == { c \in 1 .. 12 : c * (w + 1) <= width - 40 }
    IN  IF fit = {} THEN 1 ELSE CHOOSE c \in fit : \A d \in fit : d <= c

IndexOf(id) == (CHOOSE i \in DOMAIN towerBlocks : towerBlocks[i].id = id) - 1

OnWall(entry) == entry.body.position[1] = "wall"

\* C25: restack puts the block at index i of the active list in row
\* i \div columns and column i % columns, columns being
\* floor((width - 40) / (blockWidth + 1)) kept within 1 .. 12: the wall of
\* columns * (blockWidth + 1) is centred in the width, the columns are
\* blockWidth + 1 apart, an odd row is shifted by half a block width, and the
\* rows go up from height - 10 by blockHeight + 1 each (twice the coordinates
\* are compared); a second restack of the same bodies changes nothing.
C25_RestackPlaces ==
    LET w    == blockWidth
        h    == blockHeight
        cols == Columns(viewport.width, w)
    IN  /\ \A k \in DOMAIN bodyMap :
              OnWall(bodyMap[k]) =>
                  LET i   == IndexOf(bodyMap[k].id)
                      row == i \div cols
                      col == i % cols
                      pos == bodyMap[k].body.position
                  IN  /\ pos[2] - w = (viewport.width - cols * (w + 1)) + 2 * col * (w + 1)
                                        + (IF row % 2 = 1 THEN w ELSE 0)
                      /\ pos[3] + h = 2 * (viewport.height - 10) - 2 * row * (h + 1)
        /\ (\A k \in DOMAIN bodyMap : OnWall(bodyMap[k])) =>
              restack(bodyMap, towerBlocks) = bodyMap

\* a wall of two rows and more, the upper one shifted, in a container whose
\* width asks for the one column and in one that asks for more than twelve
C25_Witness ==
    /\ \E k, j \in DOMAIN bodyMap :
          /\ OnWall(bodyMap[k]) /\ OnWall(bodyMap[j])
          /\ bodyMap[k].body.position[3] # bodyMap[j].body.position[3]
    /\ viewport.width \in { 30, 1000 }
    /\ pass.ran

\* two blocks of the wall overlap: their centres are less than a block width
\* and less than a block height apart
Overlap(p, q) ==
    LET dx == IF p[2] > q[2] THEN p[2] - q[2] ELSE q[2] - p[2]
        dy == IF p[3] > q[3] THEN p[3] - q[3] ELSE q[3] - p[3]
    IN  dx < 2 * blockWidth /\ dy < 2 * blockHeight

\* C26: no two blocks that a restack placed overlap, whatever the size of
\* the container and the number of active blocks.
C26_NoOverlap ==
    \A k, j \in DOMAIN bodyMap :
        (k # j /\ OnWall(bodyMap[k]) /\ OnWall(bodyMap[j])) =>
            ~Overlap(bodyMap[k].body.position, bodyMap[j].body.position)

\* a wall with a shifted row above an unshifted one, of more than one column
C26_Witness ==
    /\ pass.ran
    /\ \E k, j \in DOMAIN bodyMap :
          /\ OnWall(bodyMap[k]) /\ OnWall(bodyMap[j])
          /\ bodyMap[k].body.position[3] + 2 * (blockHeight + 1) = bodyMap[j].body.position[3]
          /\ bodyMap[k].body.position[2] - bodyMap[j].body.position[2] = blockWidth
    /\ \E k, j \in DOMAIN bodyMap :
          /\ OnWall(bodyMap[k]) /\ OnWall(bodyMap[j])
          /\ bodyMap[k].body.position[3] = bodyMap[j].body.position[3]
          /\ bodyMap[k].body.position[2] - bodyMap[j].body.position[2] = 2 * (blockWidth + 1)

\* ---------------------------------------------------------------- C28
\* C28 (as stated): a request to add a debt with an empty name or with an
\* amount that is not positive is rejected before anything changed: the debt
\* list, the score and the snapshot are what they were, and no debt of the
\* ledger is without blocks.
C28_Original ==
    /\ ( /\ last.op \in { "addDebt", "addNewDebt" }
         /\ \/ last.name = ""
            \/ last.amount.kind = "number" /\ last.amount.value <= 0 )
       => /\ debts = last.pre
          /\ totalPaidGame = last.preScore
          /\ stored = last.preStored
    /\ \A i \in DOMAIN debts : debts[i].blocks # << >>

\* ---------------------------------------------------------------- C29
\* the press under observation was made in targeting mode on a body tagged
\* with the id of an active block
OnActiveBlock ==
    /\ last.op = "mousedown"
    /\ last.targetingMode
    /\ \E k \in DOMAIN last.bodies :
          /\ Contains(last.bodies[k], last.point)
          /\ IsTarget(last.bodies[k])
          /\ \E ref \in Refs(last.pre) :
                /\ BlockAt(last.pre, ref).id = last.bodies[k].blockId
                /\ IsActive(BlockAt(last.pre, ref))

\* the first such body in the order of the world
PressedBody ==
    last.bodies[CHOOSE k \in DOMAIN last.bodies :
                  /\ Contains(last.bodies[k], last.point) /\ IsTarget(last.bodies[k])
                  /\ \A j \in 1..(k - 1) :
                        ~(Contains(last.bodies[j], last.point) /\ IsTarget(last.bodies[j]))]

PressedBlock ==
    BlockAt(last.pre, CHOOSE ref \in Refs(last.pre) :
                         BlockAt(last.pre, ref).id = PressedBody.blockId)

\* the amount and the weapon the console engaged
EngagedAmount ==
    IF last.paymentAmount.kind = "object" THEN last.paymentAmount.amount
    ELSE last.paymentAmount.value

EngagedWeapon ==
    IF last.paymentAmount.kind = "object" THEN last.paymentAmount.weapon
    ELSE last.weapon

\* the ids within the blast of the pressed body
BlastIds ==
    mousedown(TRUE, Number(EngagedAmount), "random", last.bodies, last.point,
              << >>).ids

\* C29 (as stated): after the console engaged a positive amount A with a
\* weapon W, a press in targeting mode on an active block B (for the laser,
\* with A <= B.current) makes the ledger receive one payment of A, on B alone
\* for the hammer and the laser and on the ids of the blast for the area
\* weapon, and ends the targeting mode.
C29_Original ==
    ( /\ OnActiveBlock
      /\ EngagedAmount > 0
      /\ EngagedWeapon = "targeted" => EngagedAmount <= PressedBlock.current )
    => /\ ~isTargeting
       /\ \E targetBlocks \in
               IF EngagedWeapon = "random"
               THEN SelectTargets(last.pre, Undefined, "standard", NoBlockId, BlastIds)
               ELSE SelectTargets(last.pre, Undefined, "targeted", PressedBody.blockId, << >>) :
             LET r == DamageLoop(last.pre, targetBlocks, EngagedAmount, << >>, TRUE)
             IN  /\ debts = r.debts
                 /\ totalPaidGame = Score(last.preScore, EngagedAmount, r.amountLeft)

\* ---------------------------------------------------------------- C23
\* the press under observation met a body that is not static and is tagged
\* with a block id
HitsTagged ==
    \E k \in DOMAIN last.bodies :
        Contains(last.bodies[k], last.point) /\ IsTarget(last.bodies[k])

\* C23: a press that hits no body that is not static and tagged with a block
\* id (empty space, a wall, debris), and any press outside the targeting mode,
\* emits no event and pays nothing: the ledger, the score and the snapshot
\* are what they were.
C23_NoTargetNoPayment ==
    ( /\ last.op = "mousedown"
      /\ ~last.targetingMode \/ ~HitsTagged )
    => /\ last.event = NoEvent
       /\ debts = last.pre
       /\ totalPaidGame = last.preScore
       /\ stored = last.preStored

\* in targeting mode, with an amount engaged and blocks in the tower, the
\* press falls on a piece of debris and on nothing else
C23_Witness ==
    /\ last.op = "mousedown"
    /\ last.targetingMode
    /\ GreaterThan(last.paymentAmount, 0)
    /\ \E k \in DOMAIN last.bodies : Tagged(last.bodies[k])
    /\ \E k \in DOMAIN last.bodies :
          /\ Contains(last.bodies[k], last.point)
          /\ ~last.bodies[k].isStatic
          /\ ~Tagged(last.bodies[k])
    /\ ~HitsTagged
    /\ last.event = NoEvent
    /\ debts = last.pre

\* ---------------------------------------------------------------- C24
\* the press under observation was made with the area weapon, in targeting
\* mode, on a tagged body
AreaPress ==
    /\ last.op = "mousedown"
    /\ last.targetingMode
    /\ last.weapon = "random"
    /\ HitsTagged

\* the ids of the tracked bodies whose centre is within the radius of a point
TrackedWithin(point) ==
    { last.bodies[k].blockId :
        k \in { j \in DOMAIN last.bodies :
                  /\ IsTarget(last.bodies[j])
                  /\ Within(last.bodies[j].position, point, 3 * blockWidth) } }

\* C24 (as stated): with the area weapon, a press that resolves to a tagged
\* body returns the ids of exactly the tracked bodies within the radius
\* 3 x block width of the point that was resolved, the position of the
\* pointer; the id of the body that was hit is among them, and no id of a wall
\* or of debris is.
C24_Original ==
    AreaPress
    => /\ last.event.type = "area-target-confirmed"
       /\ Range(last.event.ids) = TrackedWithin(last.point)
       /\ PressedBody.blockId \in Range(last.event.ids)
       /\ NoBlockId \notin Range(last.event.ids)

\* ---------------------------------------------------------------- C31
\* what was left of the amount after iteration k of the observed call
AmountAfter(k) ==
    last.amount - SumSeq([i \in 1..k |-> last.log[i].damage])

\* the interest blocks a write-down took from and left active
LeftActive(k) ==
    { ref \in InterestRefs(k) : Taken(k, ref) > 0 /\ BlockAt(After(k), ref).current > 0 }

\* C31: every iteration of the damage loop exhausts the amount or removes the
\* head candidate, also when the head is an interest block an earlier
\* write-down of the call brought to 0: iteration k meets candidate k, so the
\* loop makes at most as many iterations as there are candidates; and a
\* write-down leaves at most one interest block it took from active, its last.
C31_LoopsProgress ==
    Ran =>
        /\ Len(last.log) <= Len(last.targetBlocks)
        /\ \A k \in DOMAIN last.log :
              /\ last.log[k].ref = last.targetBlocks[k]
              /\ AmountAfter(k) = 0 \/ BlockAt(After(k), last.log[k].ref).current <= 0
        /\ \A k \in WriteDownSteps : Cardinality(LeftActive(k)) <= 1

\* an iteration met an interest block that a write-down of the same call had
\* brought to 0: it dealt no damage, the candidate was removed and the next
\* iteration went on with the amount that was left
C31_Witness ==
    /\ Ran
    /\ \E k \in DOMAIN last.log :
          /\ k < Len(last.log)
          /\ last.log[k].type = "interest"
          /\ BlockAt(last.pre, last.log[k].ref).current > 0
          /\ BlockAt(last.log[k].before, last.log[k].ref).current = 0
          /\ last.log[k].damage = 0
          /\ AmountAfter(k) > 0
          /\ last.log[k + 1].damage > 0

\* ---------------------------------------------------------------- C32
\* the ids of the blocks of a debt, in the order of its list
IdsOf(d) == [j \in DOMAIN d.blocks |-> d.blocks[j].id]

\* the block ids of a ledger are pairwise distinct, every block names the
\* debt that holds it, and the lookup of that debt finds it
IdsWellFormed(ds) ==
    /\ \A ref, other \in Refs(ds) :
          BlockAt(ds, ref).id = BlockAt(ds, other).id => ref = other
    /\ \A ref \in Refs(ds) :
          /\ BlockAt(ds, ref).debtId = ds[ref[1]].id
          /\ FindDebt(ds, BlockAt(ds, ref).debtId) = ref[1]

\* a step keeps every debt with its list of block ids, unless it clears the
\* ledger
IdsKept ==
    \/ debts' = << >>
    \/ /\ Len(debts') >= Len(debts)
       /\ \A i \in DOMAIN debts :
             /\ debts'[i].id = debts[i].id
             /\ IdsOf(debts'[i]) = IdsOf(debts[i])

\* C32: after every operation the block ids of the ledger are pairwise
\* distinct and every block's debtId is the id of the debt that holds it, and
\* no operation but clearDebts changes the list of block ids of a debt:
\* payments and resetProgress neither add, remove, reorder nor rename blocks.
C32_StableIds == [][IdsWellFormed(debts') /\ IdsKept]_vars

\* a payment on a ledger of two debts destroyed a block and wrote interest
\* down: both debts have the block ids they had
C32_Witness ==
    /\ Ran
    /\ Len(debts) = 2
    /\ \E ref \in Refs(debts) :
          BlockAt(last.pre, ref).current > 0 /\ BlockAt(debts, ref).current = 0
    /\ WriteDownSteps # {}
    /\ IdsWellFormed(debts)
    /\ \A i \in DOMAIN debts : IdsOf(debts[i]) = IdsOf(last.pre[i])

\* ---------------------------------------------------------------- C33
\* the faces of the boundaries of the viewport that look at the tower, in
\* doubled coordinates: the top of the floor, the right side of the left
\* wall, the left side of the right wall
FloorTop == createBoundaries(viewport)[1].position[2] - createBoundaries(viewport)[1].height

LeftFace == createBoundaries(viewport)[2].position[1] + createBoundaries(viewport)[2].width

RightFace == createBoundaries(viewport)[3].position[1] - createBoundaries(viewport)[3].width

\* the block rectangle at this position is above the floor
AboveFloor(position) == position[3] + blockHeight <= FloorTop

\* the block rectangle at this position is between the walls
BetweenWalls(position) ==
    /\ LeftFace <= position[2] - blockWidth
    /\ position[2] + blockWidth <= RightFace

\* C33 (as stated): after restack every block rectangle lies entirely above
\* the top face of the floor and entirely between the inner faces of the two
\* walls createBoundaries made for the same viewport.
C33_Original ==
    \A k \in DOMAIN bodyMap :
        OnWall(bodyMap[k]) =>
            /\ AboveFloor(bodyMap[k].body.position)
            /\ BetweenWalls(bodyMap[k].body.position)

\* ---------------------------------------------------------------- C34
\* the sum of paid over the debts of a ledger
PaidOf(ds) == SumSeq([i \in DOMAIN ds |-> ds[i].paid])

\* the value the interest blocks of a ledger have lost, to direct damage and
\* to write-downs
InterestLost(ds) ==
    SumSeq([i \in DOMAIN ds |->
              SumSeq([j \in DOMAIN ds[i].blocks |->
                        IF ds[i].blocks[j].type = "interest"
                        THEN ds[i].blocks[j].max - ds[i].blocks[j].current ELSE 0])])

\* C34: the score is the sum of paid over the debts plus the direct damage
\* dealt to interest blocks since the last resetProgress or clearDebts: a
\* payment raises the score above the sum of paid by its direct damage to
\* interest blocks, resetProgress and clearDebts bring both to 0, and addDebt
\* changes neither.  So the score is never less than totalPaid, and exceeds it
\* by no more than the interest blocks have lost.
C34_ScoreAccount ==
    /\ totalPaid <= totalPaidGame
    /\ totalPaidGame <= totalPaid + InterestLost(debts)
    /\ IsPayment =>
          totalPaidGame - totalPaid
              = (last.preScore - PaidOf(last.pre)) + InterestLogDamage
    /\ last.op \in { "resetProgress", "clearDebts" } =>
          totalPaidGame = 0 /\ totalPaid = 0
    /\ last.op = "addDebt" =>
          totalPaidGame = last.preScore /\ totalPaid = PaidOf(last.pre)

\* a payment on a ledger whose score was above the sum of paid damaged a
\* principal block, which wrote interest down, and an interest block
C34_Witness ==
    /\ Ran
    /\ last.preScore > PaidOf(last.pre)
    /\ totalPaid > PaidOf(last.pre)
    /\ InterestLogDamage > 0
    /\ InterestLoss > InterestLogDamage

\* ---------------------------------------------------------------- C35
\* the operation under observation is one of the store and did not return
\* early
Completed ==
    /\ last.op \in { "addDebt", "makePayment", "paySpecificBlock", "payBlocks",
                     "resetProgress", "clearDebts" }
    /\ IsPayment => ~last.returned

\* C35: after every completed operation of the store the snapshot under the
\* storage key is the one saveState writes for the current debts and score;
\* a makePayment that returned early changed neither the store nor the
\* snapshot; and in every state of a created store a load gives the current
\* debts and score.
C35_SnapshotCurrent ==
    created = "ok" =>
        /\ Completed => stored = saveState(debts, totalPaidGame)
        /\ (IsPayment /\ last.returned) =>
              /\ debts = last.pre
              /\ totalPaidGame = last.preScore
              /\ stored = last.preStored
        /\ loadState(stored) =
              [ threw |-> FALSE, debts |-> debts, totalPaidGame |-> totalPaidGame ]

\* a store that was created from a snapshot with a debt completed a payment
\* that raised the score
C35_Witness ==
    /\ created = "ok"
    /\ Ran
    /\ last.preStored.present
    /\ last.preStored # stored
    /\ totalPaidGame > last.preScore
    /\ stored = saveState(debts, totalPaidGame)

\* ---------------------------------------------------------------- C36
\* C36: the Map holds one body per id, tagged with that id, the world holds
\* no two block bodies with one tag, and the tags of the block bodies in the
\* world are the ids of the Map: no tagged body is in the world without its
\* entry, and no entry is there without its body in the world.
C36_BodiesMapped ==
    /\ \A k, j \in DOMAIN bodyMap : bodyMap[k].id = bodyMap[j].id => k = j
    /\ \A k \in DOMAIN bodyMap : bodyMap[k].body.plugin.blockId = bodyMap[k].id
    /\ \A k, j \in DOMAIN world : world[k] = world[j] => k = j
    /\ Range(world) = Keys(bodyMap)

\* after a resize took every body out, a pass destroyed nothing and spawned
\* the bodies of the active blocks anew, one of them for a block whose body a
\* pass had destroyed before
C36_Witness ==
    /\ pass.ran
    /\ pass.tracked = << >>
    /\ Len(bodyMap) >= 2
    /\ Keys(bodyMap) \cap everDestroyed # {}
    /\ Range(world) = Keys(bodyMap)

\* ---------------------------------------------------------------- C37
\* the step paid: the score or a debt's paid or a block changed while the
\* list of debts kept its length
PaidStep ==
    /\ Len(debts') = Len(debts)
    /\ debts' # debts \/ totalPaidGame' # totalPaidGame

\* C37: a targeting session yields at most one payment.  A step that pays is
\* taken in targeting mode and ends it, leaving no pending amount; while the
\* targeting mode is off nothing is pending, so no step pays before the next
\* enableTargeting; the step that turns the targeting mode on pays nothing,
\* and neither does a step that ends it without a confirmed target.
C37_OnePaymentPerSession ==
    [][ /\ PaidStep => isTargeting /\ ~isTargeting' /\ pendingPayment' = Number(0)
        /\ ~isTargeting' => pendingPayment' = Number(0)
        /\ isTargeting' => ~PaidStep
        /\ (last'.op = "mousedown" /\ last'.event.type # "target-confirmed") => ~PaidStep
      ]_vars

\* after a payment through the tower, a further press on a block body is
\* made outside the targeting mode and pays nothing
C37_Witness ==
    /\ last.op = "mousedown"
    /\ ~last.targetingMode
    /\ last.preScore > 0
    /\ HitsTagged
    /\ last.event = NoEvent
    /\ debts = last.pre
    /\ totalPaidGame = last.preScore

\* ---------------------------------------------------------------- C38
\* C38 (as stated): with the laser engaged, a press on an active block whose
\* current is smaller than the pending amount emits no target event, leaves
\* the ledger as it was and the targeting mode on.
C38_Original ==
    ( /\ OnActiveBlock
      /\ EngagedWeapon = "targeted"
      /\ PressedBlock.current < EngagedAmount )
    => /\ last.event.type \notin { "target-confirmed", "area-target-confirmed" }
       /\ debts = last.pre
       /\ totalPaidGame = last.preScore
       /\ isTargeting

\* ---------------------------------------------------------------- C39
\* the principal blocks of the ledger whose current has reached 0, and the
\* blocks whose current is positive
DestroyedPrincipal ==
    { ref \in Refs(debts) :
        BlockAt(debts, ref).type = "principal" /\ BlockAt(debts, ref).current = 0 }

ActiveRefs == { ref \in Refs(debts) : BlockAt(debts, ref).current > 0 }

\* C39 (as stated): destroyedBlocks is the number of principal blocks whose
\* current has reached 0, and totalBlocks is the number of blocks whose
\* current is positive.
C39_Original ==
    /\ destroyedBlocks = Cardinality(DestroyedPrincipal)
    /\ totalBlocks = Cardinality(ActiveRefs)

====
